---- MODULE Spec2Model ----
(***************************************************************************)
(* A state-machine model of gamebots/bot.py (class BattleBot): the stage   *)
(* handler registry, the action invokers use_skill / use_master_skill /    *)
(* attack, the battle state machine (enter, reenter, play_battle,          *)
(* end_battle) and the runner run(max_loops).                              *)
(*                                                                         *)
(* The program is sequential.  Its position is pc, with the return         *)
(* addresses of the calls in progress in stack.  The device and the        *)
(* template matcher are collaborators outside the repository's sources:    *)
(* the cached frame answers each query nondeterministically, one answer    *)
(* per image per frame, and a tap reports success or failure               *)
(* nondeterministically.                                                   *)
(***************************************************************************)
EXTENDS Integers, Sequences, FiniteSets, TLC

VARIABLES
    \* ---- construction-time configuration
    stage_count,     \* self.stage_count
    friend_count,    \* self.friend_count
    ap,              \* self.ap, the AP strategy list
    stage_handlers,  \* self.stage_handlers, stage -> handler (NoHandler = absent)
    buttons,         \* self.buttons, the layout loaded from config/buttons.json
    \* ---- control
    pc,              \* the statement about to run
    stack,           \* return addresses of the calls in progress
    exc,             \* the exception that ended the program, "none" if none
    \* ---- the template matcher's cached frame
    frame,           \* image -> "?" (not yet queried in this frame), "T", "F"
    \* ---- locals
    wu_im,           \* __wait_until: im
    ff_i,            \* __find_friend: the poll index of `for _ in range(6)`
    ff_fid,          \* __find_friend: fid
    friend,          \* __enter_battle / __reenter_battle: friend
    entry,           \* which of __enter_battle / __reenter_battle is running
    ap_idx,          \* position of `for ap_item in self.ap`
    ok,              \* __enter_battle / __reenter_battle: ok
    entered,         \* what __enter_battle / __reenter_battle returned last
    stage,           \* play_battle: stage
    max_loops,       \* run: max_loops
    count,           \* run: count
    enter_flag,      \* run: enter_flag
    rounds,          \* run: rounds
    call,            \* the invoker call in progress: function and arguments
    x,               \* use_skill / use_master_skill / attack: x
    ci,              \* attack: position of `for card in cards`
    reg,             \* the at_stage call in progress: stage and handler
    \* ---- what has been observed of the execution
    taps,            \* the taps the running invoker issued itself, in order
    acted,           \* some tap or swipe was issued since the operation began
    enterRes,        \* what __enter_battle returned: "none", "ok", "fail"
    reenterCalls,    \* calls of __reenter_battle
    reenterOks,      \* calls of __reenter_battle that returned True
    reenterFailed,   \* a call of __reenter_battle returned False
    playCalls,       \* calls of play_battle
    endCalls,        \* calls of end_battle
    roundsLog,       \* the rounds of each completed battle, as logged by run
    handlerLog,      \* the handlers the running play_battle invoked, in order
    burst,           \* the taps and swipes issued since the last sleep or
                     \* frame refresh, in order, by the name of their target
    done,            \* what the running __enter_battle / __reenter_battle or
                     \* invoker has seen and tapped so far
    apLog,           \* the find-and-tap attempts of the AP recovery in
                     \* progress (or just failed), in order
    ffLog,           \* the waits, polls and swipes of the running
                     \* __find_friend, in order
    endLog,          \* the next-step and decline taps of the running
                     \* end_battle, in order
    \* ---- the matcher's confidences
    roster           \* __find_friend: the confidence with which each roster
                     \* entry matches the frame in which a friend was found

cfgVars == <<stage_count, friend_count, ap, stage_handlers, buttons>>
ctlVars == <<pc, stack, exc>>
enterVars == <<wu_im, ff_i, ff_fid, friend, entry, ap_idx, ok, entered>>
runVars == <<stage, max_loops, count, enter_flag, rounds>>
invVars == <<call, x, ci>>
obsRunVars == <<enterRes, reenterCalls, reenterOks, reenterFailed, playCalls,
                endCalls, roundsLog, handlerLog>>
obsEnterVars == <<done, apLog, ffLog>>
vars == <<stage_count, friend_count, ap, stage_handlers, buttons, pc, stack,
          exc, frame, wu_im, ff_i, ff_fid, friend, entry, ap_idx, ok, entered,
          stage,
          max_loops, count, enter_flag, rounds, call, x, ci, reg, taps, acted,
          enterRes, reenterCalls, reenterOks, reenterFailed, playCalls,
          endCalls, roundsLog, handlerLog, burst, done, apLog, ffLog,
          endLog, roster>>

----------------------------------------------------------------------------
(* Bounds of the model.                                                    *)

MaxLoops == 3        \* run is called with max_loops in -1 .. MaxLoops
MaxStageCount == 3   \* stage_count in 1 .. MaxStageCount
MaxFriends == 2      \* the roster has 1 .. MaxFriends entries
MaxServant == 3      \* use_skill: servant in 1 .. MaxServant
MaxSkill == 3        \* use_skill / use_master_skill: skill in 1 .. MaxSkill
MaxObj == 4          \* obj in 0 .. MaxObj (or None)
MaxObj2 == 7         \* obj2 in 3 .. MaxObj2 (or None)
MaxCard == 9         \* a card is in 0 .. MaxCard
MaxCards == 4        \* attack is called with 0 .. MaxCards cards
MaxAp == 3           \* the AP strategy list has 0 .. MaxAp items
MaxRegStage == 3     \* at_stage is called with stage in 0 .. MaxRegStage
NumHandlers == 3     \* the handler functions are 1 .. NumHandlers

----------------------------------------------------------------------------
(* Values.                                                                 *)

\* Python's None, as the default of obj and obj2.
None == -1000

\* stage_handlers.get(stage) of a stage nothing is registered to.
NoHandler == 0

\* FriendPolls with one poll more.
FriendPollsOneMore == 6 + 1

\* for _ in range(6)
FriendPolls == 6

FriendNames == <<"f_0", "f_1", "f_2", "f_3">>

\* threshold: float = 0.97, in hundredths
Threshold == 97

\* The confidences a roster entry can have in a frame, in hundredths: below
\* the threshold, at the threshold, above the threshold.
Confidences == {Threshold - 1, Threshold, Threshold + 1}

\* No friend has been found: no roster entry has a confidence.
NoConf == -1

\* 'f_{}'.format(fid)
FriendIm(fid) == FriendNames[fid + 1]

Labels ==
    {"menu", "quest", "ap_regen", "apple_golden", "apple_silver",
     "apple_bronze", "decide", "refresh_friends", "yes", "start_quest", "cont",
     "attack", "reconnect", "next_step", "not_apply", "choose_object",
     "order_change", "change"}
    \cup {FriendNames[i] : i \in 1..Len(FriendNames)}

\* Two stub layouts: the rectangles and the repeat distances of the controls.
Rect(rx, ry, rw, rh) == [x |-> rx, y |-> ry, w |-> rw, h |-> rh]

StubLayoutA ==
    [skill |-> Rect(40, 560, 50, 50),
     master_skill_menu |-> Rect(1170, 290, 50, 50),
     master_skill |-> Rect(880, 290, 50, 50),
     choose_object |-> Rect(280, 400, 100, 100),
     change |-> Rect(100, 300, 120, 120),
     card |-> Rect(80, 450, 150, 150),
     noble_card |-> Rect(340, 150, 150, 150),
     servant_distance |-> 318,
     skill_distance |-> 88,
     master_skill_distance |-> 90,
     choose_object_distance |-> 320,
     change_distance |-> 200,
     card_distance |-> 257]

StubLayoutB ==
    [skill |-> Rect(0, 10, 2, 3),
     master_skill_menu |-> Rect(7, 11, 2, 3),
     master_skill |-> Rect(5, 12, 2, 3),
     choose_object |-> Rect(3, 13, 4, 5),
     change |-> Rect(1, 14, 6, 7),
     card |-> Rect(2, 15, 8, 9),
     noble_card |-> Rect(4, 16, 8, 9),
     servant_distance |-> 100,
     skill_distance |-> 10,
     master_skill_distance |-> 20,
     choose_object_distance |-> 30,
     change_distance |-> 50,
     card_distance |-> 70]

Layouts == {StubLayoutA, StubLayoutB}

\* self.__button(btn)
Button(btn) == buttons[btn]

\* A tap on a rectangle (device.tap_rand) and a tap on a found image
\* (__find_and_tap), as the invokers' tap log records them.
RectTap(name, rx, r) ==
    [kind |-> "rect", name |-> name, x |-> rx, y |-> r.y, w |-> r.w, h |-> r.h]

ImageTap(im) ==
    [kind |-> "image", name |-> im, x |-> 0, y |-> 0, w |-> 0, h |-> 0]

----------------------------------------------------------------------------
(* The cached frame.                                                       *)

\* The roster while no friend has been found.
Unpolled == [fid \in 0..(friend_count - 1) |-> NoConf]

\* The confidences the roster entries can have in a captured frame.
RosterFrames == [0..(friend_count - 1) -> Confidences]

\* tm.exists(im, threshold) of a roster entry: a match below the threshold is
\* absent.
MatchesAt(fid) == roster[fid] >= Threshold

\* tm.exists(im, threshold) of a roster entry with confidence c.
AnswerAt(c) == IF c >= Threshold THEN "T" ELSE "F"

\* The confidences that agree with every answer the matcher has given about
\* the roster entries on the frame f; of an entry it was not asked about,
\* any confidence.
FramesOf(f) ==
    {r \in RosterFrames :
        \A g \in DOMAIN r :
           f[FriendNames[g + 1]] \in {"?", AnswerAt(r[g])}}

\* tm.update_screen(): a new frame, of which nothing has been queried yet.
Fresh == [l \in Labels |-> "?"]

\* The answers tm.exists(im) / tm.find(im) can give on the cached frame.
Sees(im) == IF frame[im] = "?" THEN BOOLEAN ELSE {frame[im] = "T"}

\* The frame once the query for im has answered b.
Observed(im, b) == [frame EXCEPT ![im] = IF b THEN "T" ELSE "F"]

\* What device.tap_rand can return.
TapResults == BOOLEAN

----------------------------------------------------------------------------
(* Calls and returns.                                                      *)

Goto(l) == pc' = l /\ stack' = stack /\ exc' = exc

CallTo(l, ret) == pc' = l /\ stack' = <<ret>> \o stack /\ exc' = exc

Return == pc' = Head(stack) /\ stack' = Tail(stack) /\ exc' = exc

\* An exception nobody catches: it unwinds every call in progress.
Raise(e) == pc' = "raised" /\ stack' = <<>> /\ exc' = e

----------------------------------------------------------------------------
(* __wait and __wait_until.                                                *)

\* __wait(sec): sleep, then tm.update_screen().
Wait == frame' = Fresh /\ burst' = <<>>

\* A call of __wait_until(im) that returns to ret.
CallWaitUntil(im, ret) == wu_im' = im /\ CallTo("wu_start", ret)

\* __wait_until: self.tm.update_screen()
WaitUntilStart ==
    /\ pc = "wu_start"
    /\ frame' = Fresh /\ burst' = <<>>
    /\ Goto("wu_check")
    /\ UNCHANGED <<cfgVars, enterVars, runVars, invVars, reg, taps, acted,
                   obsRunVars, endLog, roster>>
    /\ UNCHANGED obsEnterVars

\* WaitUntilCheck that looks once and returns whatever it saw.
WaitUntilCheckOnce ==
    /\ pc = "wu_check"
    /\ \E b \in Sees(wu_im) :
          /\ frame' = Observed(wu_im, b)
          /\ done' = IF b THEN done \cup {<<"seen", wu_im>>} ELSE done
          /\ Return
    /\ UNCHANGED <<cfgVars, enterVars, runVars, invVars, reg, taps, acted,
                   obsRunVars, endLog, roster>>
    /\ UNCHANGED <<burst, apLog, ffLog>>

\* __wait_until: while not self.__exists(im)
WaitUntilCheck ==
    /\ pc = "wu_check"
    /\ \E b \in Sees(wu_im) :
          /\ frame' = Observed(wu_im, b)
          /\ done' = IF b THEN done \cup {<<"seen", wu_im>>} ELSE done
          /\ IF b THEN Return ELSE Goto("wu_wait")
    /\ UNCHANGED <<cfgVars, enterVars, runVars, invVars, reg, taps, acted,
                   obsRunVars, endLog, roster>>
    /\ UNCHANGED <<burst, apLog, ffLog>>

\* __wait_until: self.__wait(INTERVAL_SHORT)
WaitUntilWait ==
    /\ pc = "wu_wait"
    /\ Wait
    /\ Goto("wu_reconnect")
    /\ UNCHANGED <<cfgVars, enterVars, runVars, invVars, reg, taps, acted,
                   obsRunVars, endLog, roster>>
    /\ UNCHANGED obsEnterVars

\* __wait_until: if self.__exists('reconnect'): self.__find_and_tap('reconnect')
WaitUntilReconnect ==
    /\ pc = "wu_reconnect"
    /\ \E b \in Sees("reconnect") :
          /\ frame' = Observed("reconnect", b)
          /\ acted' = (acted \/ b)
          /\ burst' = IF b THEN Append(burst, "reconnect") ELSE burst
    /\ Goto("wu_check")
    /\ UNCHANGED <<cfgVars, enterVars, runVars, invVars, reg, taps,
                   obsRunVars, endLog, roster>>
    /\ UNCHANGED obsEnterVars

----------------------------------------------------------------------------
(* use_skill.                                                              *)

\* SkillX with the servant offset counted from 0 instead of 1.
SkillXServantFromZero(b, servant, skill) ==
    b.skill.x + b.servant_distance * servant + b.skill_distance * (skill - 1)

\* x, y, w, h = self.__button('skill'); x += servant_distance * (servant - 1);
\* x += skill_distance * (skill - 1)
SkillX(b, servant, skill) ==
    b.skill.x + b.servant_distance * (servant - 1)
              + b.skill_distance * (skill - 1)

\* x, y, w, h = self.__button('choose_object');
\* x += choose_object_distance * (obj - 1)
ObjectX(b, obj) == b.choose_object.x + b.choose_object_distance * (obj - 1)

\* The part of an invoker's step that leaves everything but its own state alone.
InvokerStep ==
    UNCHANGED <<cfgVars, ff_i, ff_fid, friend, entry, ap_idx, ok, entered,
                runVars, call, ci, reg, obsRunVars, endLog, roster,
                obsEnterVars>>

\* UseSkillStart without the synchronisation: the skill is tapped at once.
UseSkillStartNoSync ==
    /\ pc = "us_start"
    /\ Goto("us_tap")
    /\ UNCHANGED <<frame, x, taps, acted, burst, wu_im>>
    /\ InvokerStep

\* use_skill: self.__wait_until('attack')
UseSkillStart ==
    /\ pc = "us_start"
    /\ CallWaitUntil("attack", "us_tap")
    /\ UNCHANGED <<frame, x, taps, acted, burst>>
    /\ InvokerStep

\* use_skill: the tap on the skill
UseSkillTap ==
    /\ pc = "us_tap"
    /\ x' = SkillX(buttons, call.servant, call.skill)
    /\ taps' = Append(taps, RectTap("skill", x', Button("skill")))
    /\ acted' = TRUE
    /\ burst' = Append(burst, "skill")
    /\ Goto("us_wait1")
    /\ UNCHANGED <<frame, wu_im>>
    /\ InvokerStep

\* use_skill: self.__wait(INTERVAL_SHORT) after the tap
UseSkillWait1 ==
    /\ pc = "us_wait1"
    /\ Wait
    /\ Goto("us_prompt")
    /\ UNCHANGED <<x, taps, acted, wu_im>>
    /\ InvokerStep

\* use_skill: if self.__exists('choose_object'): ...
UseSkillPrompt ==
    /\ pc = "us_prompt"
    /\ \E b \in Sees("choose_object") :
          /\ frame' = Observed("choose_object", b)
          /\ IF b /\ call.obj # None
             THEN /\ x' = ObjectX(buttons, call.obj)
                  /\ taps' = Append(taps, RectTap("choose_object", x',
                                                  Button("choose_object")))
                  /\ acted' = TRUE
                  /\ burst' = Append(burst, "choose_object")
             ELSE UNCHANGED <<x, taps, acted, burst>>
    /\ Goto("us_wait2")
    /\ UNCHANGED wu_im
    /\ InvokerStep

\* use_skill: the final self.__wait(INTERVAL_SHORT), and the return
UseSkillWait2 ==
    /\ pc = "us_wait2"
    /\ Wait
    /\ Return
    /\ UNCHANGED <<x, taps, acted, wu_im>>
    /\ InvokerStep

----------------------------------------------------------------------------
(* use_master_skill.                                                       *)

\* x, y, w, h = self.__button('master_skill');
\* x += master_skill_distance * (skill - 1)
MasterSkillX(b, skill) ==
    b.master_skill.x + b.master_skill_distance * (skill - 1)

\* x, y, w, h = self.__button('change'); x += change_distance * (obj - 1)
ChangeX(b, obj) == b.change.x + b.change_distance * (obj - 1)

\* ChangeX2 with the offset added to the base rectangle, not to the first tap.
ChangeX2FromBase(b, x1, obj, obj2) ==
    b.change.x + b.change_distance * (obj2 - obj)

\* x += change_distance * (obj2 - obj), x being where the first slot was tapped
ChangeX2(b, x1, obj, obj2) == x1 + b.change_distance * (obj2 - obj)

\* use_master_skill: self.__wait_until('attack')
MasterSkillStart ==
    /\ pc = "ms_start"
    /\ CallWaitUntil("attack", "ms_menu")
    /\ UNCHANGED <<frame, x, taps, acted, burst>>
    /\ InvokerStep

\* use_master_skill: the tap on the master skill menu
MasterSkillMenu ==
    /\ pc = "ms_menu"
    /\ x' = Button("master_skill_menu").x
    /\ taps' = Append(taps, RectTap("master_skill_menu", x',
                                    Button("master_skill_menu")))
    /\ acted' = TRUE
    /\ burst' = Append(burst, "master_skill_menu")
    /\ Goto("ms_wait1")
    /\ UNCHANGED <<frame, wu_im>>
    /\ InvokerStep

\* use_master_skill: self.__wait(INTERVAL_SHORT) after the menu tap
MasterSkillWait1 ==
    /\ pc = "ms_wait1"
    /\ Wait
    /\ Goto("ms_skill")
    /\ UNCHANGED <<x, taps, acted, wu_im>>
    /\ InvokerStep

\* use_master_skill: the tap on the master skill
MasterSkillTap ==
    /\ pc = "ms_skill"
    /\ x' = MasterSkillX(buttons, call.skill)
    /\ taps' = Append(taps, RectTap("master_skill", x', Button("master_skill")))
    /\ acted' = TRUE
    /\ burst' = Append(burst, "master_skill")
    /\ Goto("ms_wait2")
    /\ UNCHANGED <<frame, wu_im>>
    /\ InvokerStep

\* use_master_skill: self.__wait(INTERVAL_SHORT) after the skill tap
MasterSkillWait2 ==
    /\ pc = "ms_wait2"
    /\ Wait
    /\ Goto("ms_prompt")
    /\ UNCHANGED <<x, taps, acted, wu_im>>
    /\ InvokerStep

\* use_master_skill: if self.__exists('choose_object'): ...
MasterSkillPrompt ==
    /\ pc = "ms_prompt"
    /\ \E b \in Sees("choose_object") :
          /\ frame' = Observed("choose_object", b)
          /\ IF b
             THEN /\ IF call.obj # None /\ 1 <= call.obj /\ call.obj <= 3
                     THEN /\ x' = ObjectX(buttons, call.obj)
                          /\ taps' = Append(taps,
                                 RectTap("choose_object", x',
                                         Button("choose_object")))
                          /\ acted' = TRUE
                          /\ burst' = Append(burst, "choose_object")
                     ELSE UNCHANGED <<x, taps, acted, burst>>
                  /\ Goto("ms_wait3")
             ELSE /\ UNCHANGED <<x, taps, acted, burst>>
                  /\ Goto("ms_order")
    /\ UNCHANGED wu_im
    /\ InvokerStep

\* OrderChangeArgsOk without the range test: any two objects are accepted.
OrderChangeArgsOkNoRange(obj, obj2) == obj # None /\ obj2 # None

\* elif 1 <= obj <= 3 and 4 <= obj2 <= 6, after `obj is None or obj2 is None`
OrderChangeArgsOk(obj, obj2) ==
    /\ obj # None /\ obj2 # None
    /\ 1 <= obj /\ obj <= 3
    /\ 4 <= obj2 /\ obj2 <= 6

\* use_master_skill: elif self.__exists('order_change'): ...
MasterSkillOrder ==
    /\ pc = "ms_order"
    /\ \E b \in Sees("order_change") :
          /\ frame' = Observed("order_change", b)
          /\ IF b /\ OrderChangeArgsOk(call.obj, call.obj2)
             THEN Goto("ms_change1")
             ELSE Goto("ms_wait3")
    /\ UNCHANGED <<x, taps, acted, burst, wu_im>>
    /\ InvokerStep

\* use_master_skill: the tap on the first slot of the order change
MasterSkillChange1 ==
    /\ pc = "ms_change1"
    /\ x' = ChangeX(buttons, call.obj)
    /\ taps' = Append(taps, RectTap("change", x', Button("change")))
    /\ acted' = TRUE
    /\ burst' = Append(burst, "change")
    /\ Goto("ms_change2")
    /\ UNCHANGED <<frame, wu_im>>
    /\ InvokerStep

\* use_master_skill: the tap on the second slot of the order change
MasterSkillChange2 ==
    /\ pc = "ms_change2"
    /\ x' = ChangeX2(buttons, x, call.obj, call.obj2)
    /\ taps' = Append(taps, RectTap("change", x', Button("change")))
    /\ acted' = TRUE
    /\ burst' = Append(burst, "change")
    /\ Goto("ms_confirm")
    /\ UNCHANGED <<frame, wu_im>>
    /\ InvokerStep

\* use_master_skill: self.__find_and_tap('change'), on the frame cached
\* before the two slots were tapped
MasterSkillConfirm ==
    /\ pc = "ms_confirm"
    /\ \E b \in Sees("change") :
          /\ frame' = Observed("change", b)
          /\ taps' = IF b THEN Append(taps, ImageTap("change")) ELSE taps
          /\ acted' = (acted \/ b)
          /\ burst' = IF b THEN Append(burst, "change") ELSE burst
    /\ Goto("ms_wait3")
    /\ UNCHANGED <<x, wu_im>>
    /\ InvokerStep

\* use_master_skill: the final self.__wait(INTERVAL_SHORT), and the return
MasterSkillWait3 ==
    /\ pc = "ms_wait3"
    /\ Wait
    /\ Return
    /\ UNCHANGED <<x, taps, acted, wu_im>>
    /\ InvokerStep

----------------------------------------------------------------------------
(* attack.                                                                 *)

\* len(set(cards))
Distinct(cards) == Cardinality({cards[i] : i \in 1..Len(cards)})

\* CardsAccepted without the assertion that the cards are distinct.
CardsAcceptedLengthOnly(cards) == Len(cards) = 3

\* CardsAccepted with a further assertion that every card is in [1, 8].
CardsAcceptedInRange(cards) ==
    /\ Len(cards) = 3 /\ Distinct(cards) = 3
    /\ \A i \in 1..Len(cards) : 1 <= cards[i] /\ cards[i] <= 8

\* assert len(cards) == 3; assert len(set(cards)) == 3
CardsAccepted(cards) == Len(cards) = 3 /\ Distinct(cards) = 3

\* CardTaps with the noble phantasm cards offset from 5 instead of 6.
CardTapsNobleFromFive(b, card) ==
    IF 1 <= card /\ card <= 5
    THEN <<RectTap("card", b.card.x + b.card_distance * (card - 1), b.card)>>
    ELSE IF 6 <= card /\ card <= 8
         THEN <<RectTap("noble_card",
                        b.noble_card.x + b.card_distance * (card - 5),
                        b.noble_card)>>
         ELSE <<>>

\* The tap of one card: the normal cards 1..5, the noble phantasm cards 6..8,
\* and no tap (the empty sequence) for any other number.
CardTaps(b, card) ==
    IF 1 <= card /\ card <= 5
    THEN <<RectTap("card", b.card.x + b.card_distance * (card - 1), b.card)>>
    ELSE IF 6 <= card /\ card <= 8
         THEN <<RectTap("noble_card",
                        b.noble_card.x + b.card_distance * (card - 6),
                        b.noble_card)>>
         ELSE <<>>

\* attack: the two assertions, then self.__wait_until('attack')
AttackStart ==
    /\ pc = "at_start"
    /\ IF CardsAccepted(call.cards)
       THEN CallWaitUntil("attack", "at_tap")
       ELSE Raise("AssertionError") /\ UNCHANGED wu_im
    /\ UNCHANGED <<frame, x, taps, acted, burst>>
    /\ InvokerStep

\* attack: self.__find_and_tap('attack')
AttackTap ==
    /\ pc = "at_tap"
    /\ \E b \in Sees("attack") :
          /\ frame' = Observed("attack", b)
          /\ taps' = IF b THEN Append(taps, ImageTap("attack")) ELSE taps
          /\ acted' = (acted \/ b)
          /\ burst' = IF b THEN Append(burst, "attack") ELSE burst
    /\ Goto("at_wait")
    /\ UNCHANGED <<x, wu_im>>
    /\ InvokerStep

\* attack: self.__wait(INTERVAL_SHORT * 2)
AttackWait ==
    /\ pc = "at_wait"
    /\ Wait
    /\ Goto("at_card")
    /\ UNCHANGED <<x, taps, acted, wu_im>>
    /\ InvokerStep

\* attack: one turn of `for card in cards`
AttackCard ==
    /\ pc = "at_card"
    /\ ci <= Len(call.cards)
    /\ LET t == CardTaps(buttons, call.cards[ci]) IN
          /\ taps' = taps \o t
          /\ acted' = (acted \/ t # <<>>)
          /\ burst' = burst \o [i \in 1..Len(t) |-> t[i].name]
          /\ x' = IF t # <<>> THEN t[1].x ELSE x
    /\ ci' = ci + 1
    /\ Goto("at_card")
    /\ UNCHANGED <<frame, wu_im>>
    /\ UNCHANGED <<cfgVars, ff_i, ff_fid, friend, entry, ap_idx, ok, entered,
                   runVars, call, reg, obsRunVars, endLog, roster, obsEnterVars>>

\* attack: the end of the loop, and the return
AttackReturn ==
    /\ pc = "at_card"
    /\ ci > Len(call.cards)
    /\ Return
    /\ UNCHANGED <<frame, x, taps, acted, burst, wu_im>>
    /\ InvokerStep

----------------------------------------------------------------------------
(* One invoker call, as a stage handler makes it.                          *)

ObjValues == {None} \cup (0..MaxObj)

Obj2Values == {None} \cup (3..MaxObj2)

\* The card lists attack is called with: every list of at most 3 cards, and
\* longer lists up to MaxCards cards.
CardLists ==
    UNION {[1..n -> 0..MaxCard] : n \in 0..3}
    \cup UNION {[1..n -> {1, 2}] : n \in 4..MaxCards}

Calls ==
    [fn : {"use_skill"}, servant : 1..MaxServant, skill : 1..MaxSkill,
     obj : ObjValues, obj2 : {None}, cards : {<<>>}]
    \cup
    [fn : {"use_master_skill"}, servant : {0}, skill : 1..MaxSkill,
     obj : ObjValues, obj2 : Obj2Values, cards : {<<>>}]
    \cup
    [fn : {"attack"}, servant : {0}, skill : {0}, obj : {None},
     obj2 : {None}, cards : CardLists]

\* The first statement of each invoker.
EntryOf(fn) ==
    CASE fn = "use_skill" -> "us_start"
      [] fn = "use_master_skill" -> "ms_start"
      [] fn = "attack" -> "at_start"

NoCall ==
    [fn |-> "none", servant |-> 0, skill |-> 0, obj |-> None, obj2 |-> None,
     cards |-> <<>>]

NoReg == [stage |-> 0, handler |-> NoHandler]

StageKeys == 0..(IF MaxRegStage > MaxStageCount THEN MaxRegStage
                 ELSE MaxStageCount)

\* self.stage_handlers = {}
NoHandlers == [s \in StageKeys |-> NoHandler]

\* The locals and the observations before anything has run.
LocalsInit ==
    /\ wu_im = "none" /\ ff_i = 0 /\ ff_fid = 0 /\ friend = "" /\ entry = "none"
    /\ ap_idx = 0 /\ ok = FALSE /\ entered = FALSE /\ stage = 0 /\ count = 0 /\ enter_flag = 0
    /\ rounds = 0 /\ x = 0 /\ ci = 1
    /\ taps = <<>> /\ acted = FALSE
    /\ enterRes = "none" /\ reenterCalls = 0 /\ reenterOks = 0
    /\ reenterFailed = FALSE /\ playCalls = 0 /\ endCalls = 0
    /\ roundsLog = <<>> /\ handlerLog = <<>>
    /\ burst = <<>> /\ done = {} /\ apLog = <<>> /\ ffLog = <<>>
    /\ endLog = <<>> /\ roster = Unpolled
    /\ exc = "none" /\ frame = Fresh

InitInvoke ==
    /\ buttons \in Layouts
    /\ call \in Calls
    /\ pc = EntryOf(call.fn)
    /\ stack = <<"returned">>
    /\ stage_count = 1 /\ friend_count = 1 /\ ap = <<>>
    /\ stage_handlers = NoHandlers
    /\ max_loops = 0 /\ reg = NoReg
    /\ LocalsInit

NextInvoke ==
    \/ WaitUntilStart \/ WaitUntilCheck \/ WaitUntilWait \/ WaitUntilReconnect
    \/ UseSkillStart \/ UseSkillTap \/ UseSkillWait1 \/ UseSkillPrompt
    \/ UseSkillWait2
    \/ MasterSkillStart \/ MasterSkillMenu \/ MasterSkillWait1
    \/ MasterSkillTap \/ MasterSkillWait2 \/ MasterSkillPrompt
    \/ MasterSkillOrder \/ MasterSkillChange1 \/ MasterSkillChange2
    \/ MasterSkillConfirm \/ MasterSkillWait3
    \/ AttackStart \/ AttackTap \/ AttackWait \/ AttackCard \/ AttackReturn

SpecInvoke == InitInvoke /\ [][NextInvoke]_vars

----------------------------------------------------------------------------
(* Properties of the invokers (checked under SpecInvoke).                  *)

IsPrefix(s, t) == Len(s) <= Len(t) /\ SubSeq(t, 1, Len(s)) = s

HasDuplicate(cards) ==
    \E i, j \in 1..Len(cards) : i < j /\ cards[i] = cards[j]

InRange(card) == 1 <= card /\ card <= 8

SomeOutOfRange(cards) == \E i \in 1..Len(cards) : ~InRange(cards[i])

\* The tap the layout prescribes for card c of 1..8.
ExpectedCardTap(c) ==
    IF c <= 5
    THEN [kind |-> "rect", name |-> "card",
          x |-> buttons.card.x + buttons.card_distance * (c - 1),
          y |-> buttons.card.y, w |-> buttons.card.w, h |-> buttons.card.h]
    ELSE [kind |-> "rect", name |-> "noble_card",
          x |-> buttons.noble_card.x + buttons.card_distance * (c - 6),
          y |-> buttons.noble_card.y, w |-> buttons.noble_card.w,
          h |-> buttons.noble_card.h]

RECURSIVE ExpectedCardTaps(_)
ExpectedCardTaps(cards) ==
    IF cards = <<>> THEN <<>>
    ELSE (IF InRange(Head(cards)) THEN <<ExpectedCardTap(Head(cards))>>
          ELSE <<>>) \o ExpectedCardTaps(Tail(cards))

AttackTapOnControl ==
    [kind |-> "image", name |-> "attack", x |-> 0, y |-> 0, w |-> 0, h |-> 0]

\* C6: for every card list whose length is not 3 or that contains a
\* duplicate, attack fails with an AssertionError as its first step and
\* issues no tap and no swipe at all.
C6_BadCardListFailsWithoutTap ==
    (call.fn = "attack" /\ (Len(call.cards) # 3 \/ HasDuplicate(call.cards)))
    => /\ taps = <<>> /\ ~acted
       /\ pc \in {"at_start", "raised"}
       /\ pc = "raised" => exc = "AssertionError"

C6_Witness ==
    /\ call.fn = "attack" /\ Len(call.cards) = 3 /\ HasDuplicate(call.cards)
    /\ pc = "raised" /\ exc = "AssertionError"

\* C7 as claimed: for every list of 3 distinct cards with a value outside
\* [1, 8], attack is a hard failure: it taps neither the attack control nor
\* any card, and does not return normally.
C7_OutOfRangeIsFatal ==
    (call.fn = "attack" /\ Len(call.cards) = 3 /\ ~HasDuplicate(call.cards)
       /\ SomeOutOfRange(call.cards))
    => taps = <<>> /\ pc # "returned"

\* C7 as amended: for every list of 3 distinct cards with a value outside
\* [1, 8], attack raises nothing: it taps the attack control, then taps the
\* cards that lie in [1, 8] in list order, issues no tap for a card outside
\* [1, 8], and returns normally.
C7_OutOfRangeIsSkipped ==
    (call.fn = "attack" /\ Len(call.cards) = 3 /\ ~HasDuplicate(call.cards)
       /\ SomeOutOfRange(call.cards))
    => /\ exc = "none" /\ pc # "raised"
       /\ IsPrefix(taps, <<AttackTapOnControl>> \o ExpectedCardTaps(call.cards))
       /\ pc = "returned"
            => taps = <<AttackTapOnControl>> \o ExpectedCardTaps(call.cards)

C7_Witness ==
    /\ call.fn = "attack" /\ call.cards = <<6, 9, 1>>
    /\ pc = "returned" /\ Len(taps) = 3

\* C8: for a list of 3 distinct cards in [1, 8], attack taps the attack
\* control first and then exactly the three cards in list order, a card of
\* 1..5 on the card rectangle moved right by card_distance * (c - 1), a card
\* of 6..8 on the noble card rectangle moved right by card_distance * (c - 6).
C8_ValidCardsTappedInOrder ==
    (call.fn = "attack" /\ Len(call.cards) = 3 /\ ~HasDuplicate(call.cards)
       /\ ~SomeOutOfRange(call.cards))
    => LET expected ==
               <<AttackTapOnControl, ExpectedCardTap(call.cards[1]),
                 ExpectedCardTap(call.cards[2]), ExpectedCardTap(call.cards[3])>>
       IN /\ exc = "none"
          /\ IsPrefix(taps, expected)
          /\ pc = "returned" => taps = expected

C8_Witness ==
    /\ call.fn = "attack" /\ call.cards = <<6, 1, 2>>
    /\ pc = "returned" /\ Len(taps) = 4

\* C9: the first tap of use_skill is on the skill rectangle with x =
\* skill.x + servant_distance * (servant - 1) + skill_distance * (skill - 1)
\* and y, w, h of the skill rectangle; a second tap is issued exactly when
\* the object prompt is visible and an object was given, on the
\* choose_object rectangle with x = choose_object.x +
\* choose_object_distance * (obj - 1).
C9_SkillTapCoordinates ==
    call.fn = "use_skill"
    => /\ Len(taps) <= 2
       /\ Len(taps) >= 1 =>
            taps[1] = [kind |-> "rect", name |-> "skill",
                       x |-> buttons.skill.x
                             + buttons.servant_distance * (call.servant - 1)
                             + buttons.skill_distance * (call.skill - 1),
                       y |-> buttons.skill.y, w |-> buttons.skill.w,
                       h |-> buttons.skill.h]
       /\ Len(taps) = 2 =>
            taps[2] = [kind |-> "rect", name |-> "choose_object",
                       x |-> buttons.choose_object.x
                             + buttons.choose_object_distance * (call.obj - 1),
                       y |-> buttons.choose_object.y,
                       w |-> buttons.choose_object.w,
                       h |-> buttons.choose_object.h]
       /\ pc = "us_wait2" =>
            (Len(taps) = 2 <=> (frame["choose_object"] = "T" /\ call.obj # None))
       /\ pc = "returned" => Len(taps) >= 1

C9_Witness ==
    /\ call.fn = "use_skill" /\ call.servant = 2 /\ call.skill = 3
    /\ call.obj = 2 /\ pc = "returned" /\ Len(taps) = 2

\* The order-change branch of use_master_skill was taken with valid objects.
OrderChangeTaken ==
    /\ call.fn = "use_master_skill"
    /\ pc = "ms_wait3"
    /\ frame["order_change"] = "T"
    /\ call.obj # None /\ call.obj2 # None
    /\ 1 <= call.obj /\ call.obj <= 3 /\ 4 <= call.obj2 /\ call.obj2 <= 6

FirstSlotTap ==
    [kind |-> "rect", name |-> "change",
     x |-> buttons.change.x + buttons.change_distance * (call.obj - 1),
     y |-> buttons.change.y, w |-> buttons.change.w, h |-> buttons.change.h]

SecondSlotTap ==
    [FirstSlotTap EXCEPT
       !.x = FirstSlotTap.x + buttons.change_distance * (call.obj2 - call.obj)]

ConfirmTap ==
    [kind |-> "image", name |-> "change", x |-> 0, y |-> 0, w |-> 0, h |-> 0]

\* C10 as claimed: when the order-change prompt is the one that appears and
\* 1 <= obj <= 3, 4 <= obj2 <= 6, the taps after the two menu taps are the
\* first slot, the second slot at the first tap's x plus
\* change_distance * (obj2 - obj), and then the change confirmation.
C10_OrderChangeThreeTaps ==
    OrderChangeTaken
    => SubSeq(taps, 3, Len(taps)) = <<FirstSlotTap, SecondSlotTap, ConfirmTap>>

\* C10 as amended: ... the taps after the two menu taps are the first slot,
\* the second slot at the first tap's x plus change_distance * (obj2 - obj),
\* and then the change confirmation if and only if the 'change' image is
\* found in the cached frame; when it is not found no confirmation is tapped.
C10_OrderChangeTapsRelative ==
    OrderChangeTaken
    => /\ frame["change"] \in {"T", "F"}
       /\ SubSeq(taps, 3, Len(taps)) =
            <<FirstSlotTap, SecondSlotTap>>
            \o (IF frame["change"] = "T" THEN <<ConfirmTap>> ELSE <<>>)

C10_Witness ==
    /\ OrderChangeTaken /\ call.obj = 2 /\ call.obj2 = 4
    /\ Len(taps) = 5 /\ taps[5] = ConfirmTap
    /\ taps[4].x = taps[3].x + buttons.change_distance * 2

----------------------------------------------------------------------------
(* The stage handler registry: at_stage and __add_stage_handler.           *)

\* self.stage_handlers.get(stage)
HandlerOf(s) ==
    IF s \in DOMAIN stage_handlers THEN stage_handlers[s] ELSE NoHandler

RegStep ==
    UNCHANGED <<stage_count, friend_count, ap, buttons, frame, enterVars,
                runVars, invVars, taps, acted, obsRunVars, endLog, roster,
                obsEnterVars, burst>>

\* at_stage(stage)(f): the decorator calls self.__add_stage_handler(stage, f)
AtStage ==
    /\ pc = "setup"
    /\ \E s \in 0..MaxRegStage, f \in 1..NumHandlers :
          reg' = [stage |-> s, handler |-> f]
    /\ CallTo("add_handler", "setup")
    /\ UNCHANGED stage_handlers
    /\ RegStep

\* __add_stage_handler without its assertion: the later handler replaces
\* the earlier one.
AddStageHandlerOverwrite ==
    /\ pc = "add_handler"
    /\ stage_handlers' = [stage_handlers EXCEPT ![reg.stage] = reg.handler]
    /\ Return
    /\ UNCHANGED reg
    /\ RegStep

\* __add_stage_handler: assert not self.stage_handlers.get(stage);
\* self.stage_handlers[stage] = f
AddStageHandler ==
    /\ pc = "add_handler"
    /\ IF HandlerOf(reg.stage) # NoHandler
       THEN Raise("AssertionError") /\ UNCHANGED stage_handlers
       ELSE /\ stage_handlers' =
                 [stage_handlers EXCEPT ![reg.stage] = reg.handler]
            /\ Return
    /\ UNCHANGED reg
    /\ RegStep

\* A script that only registers handlers.
InitReg ==
    /\ pc = "setup" /\ stack = <<>>
    /\ buttons = StubLayoutA
    /\ stage_count = MaxStageCount /\ friend_count = 1 /\ ap = <<>>
    /\ stage_handlers = NoHandlers
    /\ max_loops = 0 /\ reg = NoReg /\ call = NoCall
    /\ LocalsInit

NextReg == AtStage \/ AddStageHandler

SpecReg == InitReg /\ [][NextReg]_vars

\* C5: whenever a handler is being registered for a stage that already has
\* one, the registration fails with an AssertionError and leaves the whole
\* registry as it was: the stage keeps its first handler and no other entry
\* changes.
C5_SecondRegistrationFails ==
    [][(pc = "add_handler" /\ stage_handlers[reg.stage] # NoHandler)
         => /\ pc' = "raised" /\ exc' = "AssertionError"
            /\ stage_handlers' = stage_handlers]_vars

C5_Witness ==
    /\ pc = "raised" /\ exc = "AssertionError"
    /\ stage_handlers[reg.stage] # NoHandler
    /\ stage_handlers[reg.stage] # reg.handler
    /\ \E s \in StageKeys : s # reg.stage /\ stage_handlers[s] # NoHandler

----------------------------------------------------------------------------
(* __find_and_tap, __find_friend, __enter_battle and __reenter_battle.     *)

\* found = self.__find_and_tap(im): the image is looked up in the cached
\* frame; if it is there it is tapped, and the result is the tap's.
FindAndTap(im, found) ==
    \E b \in Sees(im), r \in TapResults :
       /\ frame' = Observed(im, b)
       /\ acted' = (acted \/ b)
       /\ burst' = IF b THEN Append(burst, im) ELSE burst
       /\ found = (b /\ r)

\* return from __enter_battle / __reenter_battle: their locals end with the
\* call.
EnterReturns(result) ==
    /\ entered' = result
    /\ ff_i' = 0 /\ ff_fid' = 0 /\ friend' = "" /\ ap_idx' = 0 /\ ok' = FALSE
    /\ wu_im' = "none"
    /\ Return

\* The part of a step of the friend selection that leaves the rest alone.
PollStep ==
    UNCHANGED <<cfgVars, max_loops, count, enter_flag, rounds, invVars, reg,
                taps, obsRunVars, endLog>>

\* The part of a step of the battle state machine that leaves the rest alone.
BattleStep == PollStep /\ UNCHANGED roster

\* __enter_battle: self.__wait_until('menu')
EnterMenu ==
    /\ pc = "en_menu"
    /\ CallWaitUntil("menu", "en_quest")
    /\ UNCHANGED <<frame, acted, ff_i, ff_fid, friend, entry, ap_idx, ok,
                   entered, stage>>
    /\ BattleStep
    /\ UNCHANGED <<burst, done, apLog, ffLog>>

\* __enter_battle: while not self.__find_and_tap('quest', ...)
EnterQuest ==
    /\ pc = "en_quest"
    /\ \E found \in BOOLEAN :
          /\ FindAndTap("quest", found)
          /\ IF found THEN Goto("en_wait1") ELSE Goto("en_swipe")
    /\ UNCHANGED <<enterVars, stage>>
    /\ BattleStep
    /\ done' = IF burst' # burst THEN done \cup {<<"tap", "quest">>} ELSE done
    /\ UNCHANGED <<apLog, ffLog>>

\* __enter_battle: self.__swipe('quest')
EnterQuestSwipe ==
    /\ pc = "en_swipe"
    /\ acted' = TRUE
    /\ burst' = Append(burst, "swipe_quest")
    /\ Goto("en_swipe_wait")
    /\ UNCHANGED <<frame, enterVars, stage>>
    /\ BattleStep
    /\ UNCHANGED obsEnterVars

\* __enter_battle: self.__wait(INTERVAL_SHORT) in the quest loop
EnterQuestWait ==
    /\ pc = "en_swipe_wait"
    /\ Wait
    /\ Goto("en_quest")
    /\ UNCHANGED <<acted, enterVars, stage>>
    /\ BattleStep
    /\ UNCHANGED obsEnterVars

\* __enter_battle: self.__wait(INTERVAL_SHORT) after the quest was tapped
EnterWait1 ==
    /\ pc = "en_wait1"
    /\ Wait
    /\ Goto("ap_check")
    /\ UNCHANGED <<acted, enterVars, stage>>
    /\ BattleStep
    /\ UNCHANGED obsEnterVars

\* __reenter_battle: while not self.__find_and_tap('cont')
ReenterCont ==
    /\ pc = "re_cont"
    /\ \E found \in BOOLEAN :
          /\ FindAndTap("cont", found)
          /\ IF found THEN Goto("re_wait1") ELSE Goto("re_cont_wait")
    /\ UNCHANGED <<enterVars, stage>>
    /\ BattleStep
    /\ UNCHANGED obsEnterVars

\* __reenter_battle: self.__wait(INTERVAL_SHORT) in the continue loop
ReenterContWait ==
    /\ pc = "re_cont_wait"
    /\ Wait
    /\ Goto("re_cont")
    /\ UNCHANGED <<acted, enterVars, stage>>
    /\ BattleStep
    /\ UNCHANGED obsEnterVars

\* __reenter_battle: self.__wait(INTERVAL_SHORT) after continue was tapped
ReenterWait1 ==
    /\ pc = "re_wait1"
    /\ Wait
    /\ Goto("ap_check")
    /\ UNCHANGED <<acted, enterVars, stage>>
    /\ BattleStep
    /\ UNCHANGED obsEnterVars

\* ApCheck without the test for an empty strategy list: the friend search
\* starts although the AP prompt is up.
ApCheckIgnoresEmptyList ==
    /\ pc = "ap_check"
    /\ \E b \in Sees("ap_regen") :
          /\ frame' = Observed("ap_regen", b)
          /\ done' = IF b THEN done \cup {<<"seen", "ap_regen">>} ELSE done
          /\ IF ~b
             THEN /\ Goto("fr_find")
                  /\ UNCHANGED <<wu_im, ff_i, ff_fid, friend, ap_idx, ok,
                                 entered>>
             ELSE /\ ok' = FALSE
                  /\ Goto("fr_find")
                  /\ UNCHANGED <<wu_im, ff_i, ff_fid, friend, ap_idx,
                                 entered>>
    /\ UNCHANGED <<acted, entry, stage>>
    /\ BattleStep
    /\ UNCHANGED <<burst, apLog, ffLog>>

\* if self.__exists('ap_regen'): if not self.ap: return False; else ok = False
ApCheck ==
    /\ pc = "ap_check"
    /\ \E b \in Sees("ap_regen") :
          /\ frame' = Observed("ap_regen", b)
          /\ done' = IF b THEN done \cup {<<"seen", "ap_regen">>} ELSE done
          /\ IF ~b
             THEN /\ Goto("fr_find")
                  /\ UNCHANGED <<wu_im, ff_i, ff_fid, friend, ap_idx, ok,
                                 entered>>
             ELSE IF ap = <<>>
                  THEN EnterReturns(FALSE)
                  ELSE /\ ok' = FALSE
                       /\ Goto("ap_wait")
                       /\ UNCHANGED <<wu_im, ff_i, ff_fid, friend, ap_idx,
                                      entered>>
    /\ UNCHANGED <<acted, entry, stage>>
    /\ BattleStep
    /\ UNCHANGED <<burst, apLog, ffLog>>

\* self.__wait(INTERVAL_SHORT) before the strategy list is walked
ApWait ==
    /\ pc = "ap_wait"
    /\ Wait
    /\ ap_idx' = 1
    /\ Goto("ap_loop")
    /\ UNCHANGED <<acted, wu_im, ff_i, ff_fid, friend, entry, ok, entered,
                   stage>>
    /\ BattleStep
    /\ UNCHANGED obsEnterVars

\* for ap_item in self.ap: ...; if not ok: return False
ApLoop ==
    /\ pc = "ap_loop"
    /\ IF ap_idx > Len(ap)
       THEN EnterReturns(FALSE)
       ELSE /\ UNCHANGED <<wu_im, ff_i, ff_fid, friend, ap_idx, ok, entered>>
            /\ IF ap[ap_idx] = "apple_bronze"
               THEN Goto("ap_swipe") ELSE Goto("ap_item")
    /\ UNCHANGED <<frame, acted, entry, stage>>
    /\ BattleStep
    /\ UNCHANGED <<burst, done, apLog, ffLog>>

\* self.device.swipe((640, 400), (640, 250))
ApSwipe ==
    /\ pc = "ap_swipe"
    /\ acted' = TRUE
    /\ burst' = Append(burst, "swipe_ap")
    /\ Goto("ap_swipe_wait")
    /\ UNCHANGED <<frame, enterVars, stage>>
    /\ BattleStep
    /\ UNCHANGED obsEnterVars

\* self.__wait(INTERVAL_SHORT) after the swipe
ApSwipeWait ==
    /\ pc = "ap_swipe_wait"
    /\ Wait
    /\ Goto("ap_item")
    /\ UNCHANGED <<acted, enterVars, stage>>
    /\ BattleStep
    /\ UNCHANGED obsEnterVars

\* if self.__find_and_tap(ap_item): ...
ApItem ==
    /\ pc = "ap_item"
    /\ \E found \in BOOLEAN :
          /\ FindAndTap(ap[ap_idx], found)
          /\ apLog' = Append(apLog, [kind |-> "item", idx |-> ap_idx,
                                      tapped |-> burst' # burst, ok |-> found])
          /\ IF found
             THEN Goto("ap_item_wait") /\ UNCHANGED ap_idx
             ELSE Goto("ap_loop") /\ ap_idx' = ap_idx + 1
    /\ UNCHANGED <<wu_im, ff_i, ff_fid, friend, entry, ok, entered, stage>>
    /\ BattleStep
    /\ UNCHANGED <<done, ffLog>>

\* self.__wait(INTERVAL_SHORT) after the item was tapped
ApItemWait ==
    /\ pc = "ap_item_wait"
    /\ Wait
    /\ Goto("ap_decide")
    /\ UNCHANGED <<acted, enterVars, stage>>
    /\ BattleStep
    /\ UNCHANGED obsEnterVars

\* if self.__find_and_tap('decide'): self.__wait_until('refresh_friends')
ApDecide ==
    /\ pc = "ap_decide"
    /\ \E found \in BOOLEAN :
          /\ FindAndTap("decide", found)
          /\ apLog' = Append(apLog, [kind |-> "decide", idx |-> ap_idx,
                                      tapped |-> burst' # burst, ok |-> found])
          /\ IF found
             THEN CallWaitUntil("refresh_friends", "ap_ok") /\ UNCHANGED ap_idx
             ELSE Goto("ap_loop") /\ ap_idx' = ap_idx + 1 /\ UNCHANGED wu_im
    /\ UNCHANGED <<ff_i, ff_fid, friend, entry, ok, entered, stage>>
    /\ BattleStep
    /\ UNCHANGED <<done, ffLog>>

\* ApOk without the break: the loop goes on to the next item.
ApOkNoBreak ==
    /\ pc = "ap_ok"
    /\ ok' = TRUE
    /\ ap_idx' = ap_idx + 1
    /\ Goto("ap_loop")
    /\ UNCHANGED <<frame, acted, wu_im, ff_i, ff_fid, friend, entry,
                   entered, stage>>
    /\ BattleStep
    /\ UNCHANGED <<burst, done, apLog, ffLog>>

\* ok = True; break: the AP recovery is over
ApOk ==
    /\ pc = "ap_ok"
    /\ ok' = TRUE
    /\ Goto("fr_find")
    /\ UNCHANGED <<frame, acted, wu_im, ff_i, ff_fid, friend, entry, ap_idx,
                   entered, stage>>
    /\ BattleStep
    /\ apLog' = <<>>
    /\ UNCHANGED <<burst, done, ffLog>>


\* friend = self.__find_friend()
FriendFind ==
    /\ pc = "fr_find"
    /\ CallTo("ff_start", "fr_check")
    /\ UNCHANGED <<frame, acted, enterVars, stage>>
    /\ BattleStep
    /\ done' = done \cup {<<"call", "find_friend">>}
    /\ UNCHANGED <<burst, apLog, ffLog>>

\* __find_friend: self.__wait_until('refresh_friends')
FindFriendStart ==
    /\ pc = "ff_start"
    /\ CallWaitUntil("refresh_friends", "ff_loop")
    /\ ff_i' = 0
    /\ UNCHANGED <<frame, acted, ff_fid, friend, entry, ap_idx, ok, entered,
                   stage>>
    /\ BattleStep
    /\ ffLog' = <<>>
    /\ UNCHANGED <<burst, done, apLog>>

\* __find_friend: for _ in range(6): self.__wait(INTERVAL_SHORT); and the
\* return of '' once the polls are used up
FindFriendLoop ==
    /\ pc = "ff_loop"
    /\ IF ff_i < FriendPolls
       THEN /\ Wait /\ ff_fid' = 0 /\ Goto("ff_match") /\ UNCHANGED friend
            /\ ffLog' = Append(ffLog, "wait")
       ELSE /\ friend' = "" /\ Return
            /\ UNCHANGED <<frame, ff_fid, burst, ffLog>>
    /\ UNCHANGED <<acted, wu_im, ff_i, entry, ap_idx, ok, entered, stage>>
    /\ BattleStep
    /\ UNCHANGED <<done, apLog>>

\* FindFriendMatch as a best match: every roster entry is looked at, and of
\* those that match, the one with the highest confidence is returned.
FindFriendMatchBest ==
    /\ pc = "ff_match"
    /\ ff_fid < friend_count
    /\ \E r \in FramesOf(frame) :
          LET best == CHOOSE f \in DOMAIN r :
                         \A g \in DOMAIN r :
                            \/ r[g] < r[f]
                            \/ r[g] = r[f] /\ f <= g
              seen == [l \in Labels |->
                         IF \E g \in DOMAIN r : l = FriendIm(g)
                         THEN AnswerAt(r[CHOOSE g \in DOMAIN r :
                                             l = FriendIm(g)])
                         ELSE frame[l]]
          IN  /\ frame' = seen
              /\ IF r[best] >= Threshold
                 THEN /\ roster' = r
                      /\ friend' = FriendIm(best) /\ Return
                      /\ UNCHANGED ff_fid
                      /\ ffLog' = Append(ffLog, "hit")
                      /\ done' = done \cup {<<"seen", FriendIm(best)>>}
                 ELSE /\ ff_fid' = friend_count /\ Goto("ff_match")
                      /\ UNCHANGED <<friend, roster>>
                      /\ ffLog' = Append(ffLog, "miss")
                      /\ UNCHANGED done
    /\ UNCHANGED <<acted, wu_im, ff_i, entry, ap_idx, ok, entered, stage>>
    /\ PollStep
    /\ UNCHANGED <<burst, apLog>>

\* __find_friend: for fid in range(self.friend_count):
\*     if self.__exists(im, threshold=self.threshold): return im
\* On a match the confidences of the frame are recorded: they agree with the
\* answers the loop was given; the entries behind fid, which the loop does
\* not look at, have any confidence.
FindFriendMatch ==
    /\ pc = "ff_match"
    /\ ff_fid < friend_count
    /\ \E b \in Sees(FriendIm(ff_fid)) :
          /\ frame' = Observed(FriendIm(ff_fid), b)
          /\ IF b
             THEN /\ friend' = FriendIm(ff_fid) /\ Return /\ UNCHANGED ff_fid
                  /\ roster' \in FramesOf(frame')
                  /\ ffLog' = Append(ffLog, "hit")
                  /\ done' = done \cup {<<"seen", FriendIm(ff_fid)>>}
             ELSE /\ ff_fid' = ff_fid + 1 /\ Goto("ff_match")
                  /\ UNCHANGED <<friend, roster>>
                  /\ ffLog' = IF ff_fid + 1 >= friend_count
                               THEN Append(ffLog, "miss") ELSE ffLog
                  /\ UNCHANGED done
    /\ UNCHANGED <<acted, wu_im, ff_i, entry, ap_idx, ok, entered, stage>>
    /\ PollStep
    /\ UNCHANGED <<burst, apLog>>

\* __find_friend: self.__swipe('friend')
FindFriendSwipe ==
    /\ pc = "ff_match"
    /\ ff_fid >= friend_count
    /\ acted' = TRUE
    /\ burst' = Append(burst, "swipe_friend")
    /\ ff_i' = ff_i + 1
    /\ Goto("ff_loop")
    /\ UNCHANGED <<frame, wu_im, ff_fid, friend, entry, ap_idx, ok, entered,
                   stage>>
    /\ BattleStep
    /\ ffLog' = Append(ffLog, "swipe")
    /\ UNCHANGED <<done, apLog>>

\* FriendCheck with a give-up: an empty search ends the call with failure.
FriendCheckGivesUp ==
    /\ pc = "fr_check"
    /\ IF friend = ""
       THEN EnterReturns(FALSE)
       ELSE /\ Goto("fr_tap")
            /\ UNCHANGED <<wu_im, ff_i, ff_fid, friend, ap_idx, ok, entered>>
    /\ UNCHANGED <<frame, acted, entry, stage>>
    /\ BattleStep
    /\ UNCHANGED <<burst, done, apLog, ffLog>>

\* while not friend: ...
FriendCheck ==
    /\ pc = "fr_check"
    /\ IF friend = "" THEN Goto("fr_refresh") ELSE Goto("fr_tap")
    /\ UNCHANGED <<frame, acted, enterVars, stage>>
    /\ BattleStep
    /\ UNCHANGED <<burst, done, apLog, ffLog>>

\* self.__find_and_tap('refresh_friends')
FriendRefresh ==
    /\ pc = "fr_refresh"
    /\ \E found \in BOOLEAN : FindAndTap("refresh_friends", found)
    /\ Goto("fr_refresh_wait")
    /\ UNCHANGED <<enterVars, stage>>
    /\ BattleStep
    /\ UNCHANGED obsEnterVars

\* self.__wait(INTERVAL_SHORT) after the refresh
FriendRefreshWait ==
    /\ pc = "fr_refresh_wait"
    /\ Wait
    /\ Goto("fr_yes")
    /\ UNCHANGED <<acted, enterVars, stage>>
    /\ BattleStep
    /\ UNCHANGED obsEnterVars

\* self.__find_and_tap('yes')
FriendYes ==
    /\ pc = "fr_yes"
    /\ \E found \in BOOLEAN : FindAndTap("yes", found)
    /\ Goto("fr_yes_wait")
    /\ UNCHANGED <<enterVars, stage>>
    /\ BattleStep
    /\ UNCHANGED obsEnterVars

\* self.__wait(INTERVAL_SHORT) after the confirmation
FriendYesWait ==
    /\ pc = "fr_yes_wait"
    /\ Wait
    /\ Goto("fr_find")
    /\ UNCHANGED <<acted, enterVars, stage>>
    /\ BattleStep
    /\ done' = done \cup {<<"call", "retry">>}
    /\ UNCHANGED <<apLog, ffLog>>

\* FriendTap with the start-quest wait after it in both procedures.
FriendTapAlwaysWaits ==
    /\ pc = "fr_tap"
    /\ \E found \in BOOLEAN : FindAndTap(friend, found)
    /\ CallWaitUntil("start_quest", "en_start")
    /\ UNCHANGED <<ff_i, ff_fid, friend, entry, ap_idx, ok, entered, stage>>
    /\ PollStep
    /\ roster' = Unpolled
    /\ done' = IF burst' # burst THEN done \cup {<<"tap", friend>>} ELSE done
    /\ UNCHANGED <<apLog, ffLog>>

\* self.__find_and_tap(friend, threshold=self.threshold); then
\* __enter_battle waits for 'start_quest', __reenter_battle does not
FriendTap ==
    /\ pc = "fr_tap"
    /\ \E found \in BOOLEAN : FindAndTap(friend, found)
    /\ IF entry = "enter"
       THEN CallWaitUntil("start_quest", "en_start")
       ELSE Goto("re_wait_mid") /\ UNCHANGED wu_im
    /\ UNCHANGED <<ff_i, ff_fid, friend, entry, ap_idx, ok, entered, stage>>
    /\ PollStep
    /\ roster' = Unpolled
    /\ done' = IF burst' # burst THEN done \cup {<<"tap", friend>>} ELSE done
    /\ UNCHANGED <<apLog, ffLog>>

\* __enter_battle: self.__find_and_tap('start_quest')
EnterStart ==
    /\ pc = "en_start"
    /\ \E found \in BOOLEAN : FindAndTap("start_quest", found)
    /\ Goto("en_wait_mid")
    /\ UNCHANGED <<enterVars, stage>>
    /\ BattleStep
    /\ done' = IF burst' # burst THEN done \cup {<<"tap", "start_quest">>} ELSE done
    /\ UNCHANGED <<apLog, ffLog>>

\* __enter_battle: self.__wait(INTERVAL_MID); return True
EnterWaitMid ==
    /\ pc = "en_wait_mid"
    /\ Wait
    /\ EnterReturns(TRUE)
    /\ UNCHANGED <<acted, entry, stage>>
    /\ BattleStep
    /\ ffLog' = <<>>
    /\ UNCHANGED <<done, apLog>>

\* __reenter_battle: self.__wait(INTERVAL_MID); return True
ReenterWaitMid ==
    /\ pc = "re_wait_mid"
    /\ Wait
    /\ EnterReturns(TRUE)
    /\ UNCHANGED <<acted, entry, stage>>
    /\ BattleStep
    /\ ffLog' = <<>>
    /\ UNCHANGED <<done, apLog>>

----------------------------------------------------------------------------
(* play_battle and end_battle.                                             *)

\* PlayMore with the bound included: one stage too many.
PlayMoreInclusive(s, n) == s <= n

\* while stage < self.stage_count
PlayMore(s, n) == s < n

PlayStep ==
    UNCHANGED <<cfgVars, max_loops, count, enter_flag, rounds, invVars, reg,
                taps, enterRes, reenterCalls, reenterOks, reenterFailed,
                playCalls, endCalls, roundsLog,
                obsEnterVars, endLog, roster>>

\* play_battle: stage = 0
PlayBattleStart ==
    /\ pc = "pb_start"
    /\ stage' = 0
    /\ handlerLog' = <<>>
    /\ Goto("pb_loop")
    /\ UNCHANGED <<frame, acted, burst, enterVars>>
    /\ PlayStep

\* play_battle: while stage < self.stage_count: stage += 1;
\* self.__wait_until('attack'); and `return stage` after the loop
PlayBattleLoop ==
    /\ pc = "pb_loop"
    /\ IF PlayMore(stage, stage_count)
       THEN stage' = stage + 1 /\ CallWaitUntil("attack", "pb_handler")
       ELSE Return /\ UNCHANGED <<stage, wu_im>>
    /\ UNCHANGED <<frame, acted, burst, ff_i, ff_fid, friend, entry, ap_idx, ok,
                   entered, handlerLog>>
    /\ PlayStep

\* PlayBattleHandler with a lookup that tolerates a missing handler: the
\* stage is skipped.
PlayBattleHandlerSkipsMissing ==
    /\ pc = "pb_handler"
    /\ IF HandlerOf(stage) = NoHandler
       THEN Goto("pb_wait") /\ UNCHANGED handlerLog
       ELSE /\ handlerLog' =
                 Append(handlerLog,
                        [stage |-> stage, handler |-> HandlerOf(stage),
                         attackSeen |-> frame["attack"] = "T"])
            /\ Goto("pb_wait")
    /\ UNCHANGED <<frame, acted, burst, enterVars, stage>>
    /\ PlayStep

\* play_battle: self.stage_handlers[stage](), a KeyError if the stage has
\* no handler.  The handler is the user's script: here it is a call that
\* returns; the invoker calls it makes are the subject of SpecInvoke.
PlayBattleHandler ==
    /\ pc = "pb_handler"
    /\ IF HandlerOf(stage) = NoHandler
       THEN Raise("KeyError") /\ UNCHANGED handlerLog
       ELSE /\ handlerLog' =
                 Append(handlerLog,
                        [stage |-> stage, handler |-> HandlerOf(stage),
                         attackSeen |-> frame["attack"] = "T"])
            /\ Goto("pb_wait")
    /\ UNCHANGED <<frame, acted, burst, enterVars, stage>>
    /\ PlayStep

\* play_battle: self.__wait(INTERVAL_LONG)
PlayBattleWait ==
    /\ pc = "pb_wait"
    /\ Wait
    /\ Goto("pb_loop")
    /\ UNCHANGED <<acted, enterVars, stage, handlerLog>>
    /\ PlayStep

EndStep ==
    UNCHANGED <<cfgVars, enterVars, runVars, invVars, reg, taps, obsRunVars,
                obsEnterVars, roster>>

\* end_battle: self.__wait(INTERVAL_SHORT)
EndBattleStart ==
    /\ pc = "eb_start"
    /\ Wait
    /\ Goto("eb_loop")
    /\ UNCHANGED acted
    /\ EndStep
    /\ endLog' = <<>>

\* EndBattleLoop without the exit: the screen is tapped again whether or not
\* next_step is there.
EndBattleLoopKeepsTapping ==
    /\ pc = "eb_loop"
    /\ \E b \in Sees("next_step") :
          /\ frame' = Observed("next_step", b)
          /\ Goto("eb_tap")
    /\ UNCHANGED <<acted, burst>>
    /\ EndStep
    /\ UNCHANGED endLog

\* end_battle: while not self.__exists('next_step')
EndBattleLoop ==
    /\ pc = "eb_loop"
    /\ \E b \in Sees("next_step") :
          /\ frame' = Observed("next_step", b)
          /\ IF b THEN Goto("eb_next1") ELSE Goto("eb_tap")
    /\ UNCHANGED <<acted, burst>>
    /\ EndStep
    /\ UNCHANGED endLog

\* end_battle: self.device.tap_rand(640, 360, 50, 50)
EndBattleTap ==
    /\ pc = "eb_tap"
    /\ acted' = TRUE
    /\ burst' = Append(burst, "screen")
    /\ Goto("eb_wait")
    /\ UNCHANGED frame
    /\ EndStep
    /\ UNCHANGED endLog

\* end_battle: self.__wait(INTERVAL_SHORT) in the loop
EndBattleWait ==
    /\ pc = "eb_wait"
    /\ Wait
    /\ Goto("eb_reconnect")
    /\ UNCHANGED acted
    /\ EndStep
    /\ UNCHANGED endLog

\* end_battle: if self.__exists('reconnect'): self.__find_and_tap('reconnect')
EndBattleReconnect ==
    /\ pc = "eb_reconnect"
    /\ \E b \in Sees("reconnect") :
          /\ frame' = Observed("reconnect", b)
          /\ acted' = (acted \/ b)
          /\ burst' = IF b THEN Append(burst, "reconnect") ELSE burst
    /\ Goto("eb_loop")
    /\ EndStep
    /\ UNCHANGED endLog

\* end_battle: self.__find_and_tap('next_step')
EndBattleNext1 ==
    /\ pc = "eb_next1"
    /\ \E found \in BOOLEAN : FindAndTap("next_step", found)
    /\ Goto("eb_wait2")
    /\ EndStep
    /\ endLog' = IF burst' # burst THEN Append(endLog, "next_step") ELSE endLog

\* end_battle: self.__wait(INTERVAL_SHORT * 2)
EndBattleWait2 ==
    /\ pc = "eb_wait2"
    /\ Wait
    /\ Goto("eb_check2")
    /\ UNCHANGED acted
    /\ EndStep
    /\ UNCHANGED endLog

\* EndBattleCheck2 with the second tap issued whether or not the control is
\* still there.
EndBattleCheck2AlwaysTaps ==
    /\ pc = "eb_check2"
    /\ \E b \in Sees("next_step") :
          /\ frame' = Observed("next_step", b)
          /\ acted' = TRUE
          /\ burst' = Append(burst, "next_step")
          /\ endLog' = Append(endLog, "next_step")
          /\ Goto("eb_wait3")
    /\ EndStep

\* end_battle: if self.__exists('next_step'):
\*     self.__find_and_tap('next_step'); self.__wait(INTERVAL_SHORT)
EndBattleCheck2 ==
    /\ pc = "eb_check2"
    /\ \E b \in Sees("next_step") :
          /\ frame' = Observed("next_step", b)
          /\ acted' = (acted \/ b)
          /\ burst' = IF b THEN Append(burst, "next_step") ELSE burst
          /\ endLog' = IF b THEN Append(endLog, "next_step") ELSE endLog
          /\ IF b THEN Goto("eb_wait3") ELSE Goto("eb_wait4")
    /\ EndStep

\* end_battle: self.__wait(INTERVAL_SHORT) after the second next_step
EndBattleWait3 ==
    /\ pc = "eb_wait3"
    /\ Wait
    /\ Goto("eb_wait4")
    /\ UNCHANGED acted
    /\ EndStep
    /\ UNCHANGED endLog

\* end_battle: self.__wait(INTERVAL_SHORT * 2)
EndBattleWait4 ==
    /\ pc = "eb_wait4"
    /\ Wait
    /\ Goto("eb_not_apply")
    /\ UNCHANGED acted
    /\ EndStep
    /\ UNCHANGED endLog

\* end_battle: if self.__exists('not_apply'): self.__find_and_tap('not_apply')
EndBattleNotApply ==
    /\ pc = "eb_not_apply"
    /\ \E b \in Sees("not_apply") :
          /\ frame' = Observed("not_apply", b)
          /\ acted' = (acted \/ b)
          /\ burst' = IF b THEN Append(burst, "not_apply") ELSE burst
          /\ endLog' = IF b THEN Append(endLog, "not_apply") ELSE endLog
    /\ Goto("eb_wait5")
    /\ EndStep

\* end_battle: the final self.__wait(INTERVAL_SHORT), and the return
EndBattleWait5 ==
    /\ pc = "eb_wait5"
    /\ Wait
    /\ Return
    /\ UNCHANGED acted
    /\ EndStep
    /\ UNCHANGED endLog

----------------------------------------------------------------------------
(* run.                                                                    *)

\* LoopAgain with the bound included: one battle too many.
LoopAgainInclusive(c, m, flag) == c <= m /\ flag = 0

\* while (count < max_loops) and (enter_flag == 0)
LoopAgain(c, m, flag) == c < m /\ flag = 0

RunStep ==
    UNCHANGED <<cfgVars, frame, wu_im, ff_i, ff_fid, friend, ap_idx, ok,
                entered, stage, max_loops, invVars, reg, taps, acted,
                handlerLog, burst, ffLog, roster>>

\* run: count = 0; enter_flag = 0; self.__enter_battle()
RunStart ==
    /\ pc = "run_start"
    /\ count' = 0
    /\ enter_flag' = 0
    /\ entry' = "enter"
    /\ CallTo("en_menu", "run_entered")
    /\ UNCHANGED <<rounds, obsRunVars, endLog, roster>>
    /\ RunStep
    /\ done' = {} /\ apLog' = <<>>

\* run: if not self.__enter_battle(): enter_flag = 1
\*      if enter_flag == 0: rounds = self.play_battle()
RunEntered ==
    /\ pc = "run_entered"
    /\ IF ~entered
       THEN /\ enter_flag' = 1
            /\ enterRes' = "fail"
            /\ Goto("run_loop")
            /\ UNCHANGED playCalls
       ELSE /\ enterRes' = "ok"
            /\ playCalls' = playCalls + 1
            /\ CallTo("pb_start", "run_played")
            /\ UNCHANGED enter_flag
    /\ UNCHANGED <<entry, count, rounds, reenterCalls, reenterOks,
                   reenterFailed, endCalls, roundsLog>>
    /\ RunStep
    /\ done' = {} /\ apLog' = <<>>
    /\ UNCHANGED endLog

\* run: rounds = self.play_battle(); self.end_battle()
RunPlayed ==
    /\ pc = "run_played"
    /\ rounds' = stage
    /\ endCalls' = endCalls + 1
    /\ CallTo("eb_start", "run_ended")
    /\ UNCHANGED <<entry, count, enter_flag, enterRes, reenterCalls,
                   reenterOks, reenterFailed, playCalls, roundsLog>>
    /\ RunStep
    /\ UNCHANGED <<done, apLog>>
    /\ UNCHANGED endLog

\* run: count += 1; the battle and its rounds are logged
RunEnded ==
    /\ pc = "run_ended"
    /\ count' = count + 1
    /\ roundsLog' = Append(roundsLog, rounds)
    /\ Goto("run_loop")
    /\ UNCHANGED <<entry, enter_flag, rounds, enterRes, reenterCalls,
                   reenterOks, reenterFailed, playCalls, endCalls>>
    /\ RunStep
    /\ UNCHANGED <<done, apLog>>
    /\ endLog' = <<>>

\* run: while (count < max_loops) and (enter_flag == 0):
\*          self.__reenter_battle()
RunLoop ==
    /\ pc = "run_loop"
    /\ IF LoopAgain(count, max_loops, enter_flag)
       THEN /\ reenterCalls' = reenterCalls + 1
            /\ entry' = "reenter"
            /\ CallTo("re_cont", "run_reentered")
       ELSE /\ Goto("run_report")
            /\ UNCHANGED <<reenterCalls, entry>>
    /\ UNCHANGED <<count, enter_flag, rounds, enterRes, reenterOks,
                   reenterFailed, playCalls, endCalls, roundsLog>>
    /\ RunStep
    /\ done' = {} /\ apLog' = <<>>
    /\ UNCHANGED endLog

\* RunReentered without the break: the battle is played although
\* __reenter_battle failed.
RunReenteredNoBreak ==
    /\ pc = "run_reentered"
    /\ reenterFailed' = (reenterFailed \/ ~entered)
    /\ reenterOks' = IF entered THEN reenterOks + 1 ELSE reenterOks
    /\ playCalls' = playCalls + 1
    /\ CallTo("pb_start", "run_played")
    /\ UNCHANGED <<entry, count, enter_flag, rounds, enterRes, reenterCalls,
                   endCalls, roundsLog>>
    /\ RunStep
    /\ done' = {} /\ apLog' = <<>>
    /\ UNCHANGED endLog

\* run: if not self.__reenter_battle(): break
\*      rounds = self.play_battle()
RunReentered ==
    /\ pc = "run_reentered"
    /\ IF ~entered
       THEN /\ reenterFailed' = TRUE
            /\ Goto("run_report")
            /\ UNCHANGED <<reenterOks, playCalls>>
       ELSE /\ reenterOks' = reenterOks + 1
            /\ playCalls' = playCalls + 1
            /\ CallTo("pb_start", "run_played")
            /\ UNCHANGED reenterFailed
    /\ UNCHANGED <<entry, count, enter_flag, rounds, enterRes, reenterCalls,
                   endCalls, roundsLog>>
    /\ RunStep
    /\ done' = {} /\ apLog' = <<>>
    /\ UNCHANGED endLog

\* run: the final report, with (endtime - starttime) / count
RunReport ==
    /\ pc = "run_report"
    /\ IF count = 0 THEN Raise("ZeroDivisionError") ELSE Goto("returned")
    /\ UNCHANGED <<entry, count, enter_flag, rounds, obsRunVars, endLog, roster>>
    /\ RunStep
    /\ UNCHANGED <<done, apLog>>

\* The AP strategies the bot is constructed with.
RunApLists == {<<>>, <<"apple_bronze", "apple_golden">>}

\* The registries run is started with: handlers for the stages 1 .. k, or
\* for every stage of 1 .. n but stage k, the handler of stage s being
\* number ((s + d) % NumHandlers) + 1.
RunRegistries(n) ==
    { [s \in StageKeys |->
         IF 1 <= s /\ s <= k THEN ((s + d) % NumHandlers) + 1 ELSE NoHandler]
      : k \in 0..n, d \in {0, NumHandlers - 1} }
    \cup
    { [s \in StageKeys |->
         IF 1 <= s /\ s <= n /\ s # k THEN ((s + d) % NumHandlers) + 1
         ELSE NoHandler]
      : k \in 1..n, d \in {0, NumHandlers - 1} }

\* A script that has registered its handlers and calls bot.run(max_loops).
InitRun ==
    /\ pc = "run_start" /\ stack = <<>>
    /\ buttons = StubLayoutA
    /\ stage_count \in 1..MaxStageCount
    /\ friend_count \in 1..MaxFriends
    /\ ap \in RunApLists
    /\ stage_handlers \in RunRegistries(stage_count)
    /\ max_loops \in (-1)..MaxLoops
    /\ reg = NoReg /\ call = NoCall
    /\ LocalsInit

NextRun ==
    \/ WaitUntilStart \/ WaitUntilCheck \/ WaitUntilWait \/ WaitUntilReconnect
    \/ EnterMenu \/ EnterQuest \/ EnterQuestSwipe \/ EnterQuestWait
    \/ EnterWait1 \/ ReenterCont \/ ReenterContWait \/ ReenterWait1
    \/ ApCheck \/ ApWait \/ ApLoop \/ ApSwipe \/ ApSwipeWait \/ ApItem
    \/ ApItemWait \/ ApDecide \/ ApOk
    \/ FriendFind \/ FindFriendStart \/ FindFriendLoop \/ FindFriendMatch
    \/ FindFriendSwipe \/ FriendCheck \/ FriendRefresh \/ FriendRefreshWait
    \/ FriendYes \/ FriendYesWait \/ FriendTap \/ EnterStart \/ EnterWaitMid
    \/ ReenterWaitMid
    \/ PlayBattleStart \/ PlayBattleLoop \/ PlayBattleHandler \/ PlayBattleWait
    \/ EndBattleStart \/ EndBattleLoop \/ EndBattleTap \/ EndBattleWait
    \/ EndBattleReconnect \/ EndBattleNext1 \/ EndBattleWait2
    \/ EndBattleCheck2 \/ EndBattleWait3 \/ EndBattleWait4
    \/ EndBattleNotApply \/ EndBattleWait5
    \/ RunStart \/ RunEntered \/ RunPlayed \/ RunEnded \/ RunLoop
    \/ RunReentered \/ RunReport

Spec == InitRun /\ [][NextRun]_vars

----------------------------------------------------------------------------
(* Properties of run and play_battle (checked under Spec).                 *)

Max(a, b) == IF a >= b THEN a ELSE b

\* C1: in every run in which the initial __enter_battle returned False,
\* play_battle, end_battle and __reenter_battle are never called, no battle
\* is counted, and run raises nothing (its final report included).
C1_EnterFailureEndsCleanly ==
    enterRes = "fail"
    => /\ playCalls = 0 /\ endCalls = 0 /\ reenterCalls = 0
       /\ count = 0
       /\ exc = "none"

\* C2: run never plays more than max(1, max_loops) battles nor calls
\* __reenter_battle more than max(0, max_loops - 1) times; when it returns
\* after __enter_battle and every __reenter_battle succeeded, it has played
\* and ended exactly max(1, max_loops) battles and called __reenter_battle
\* exactly max(0, max_loops - 1) times (one battle and no re-entry for
\* max_loops = 0).
C2_BattlesPlayed ==
    /\ playCalls <= Max(1, max_loops)
    /\ endCalls <= playCalls
    /\ reenterCalls <= Max(0, max_loops - 1)
    /\ (pc = "returned" /\ enterRes = "ok" /\ ~reenterFailed)
         => /\ playCalls = Max(1, max_loops)
            /\ endCalls = Max(1, max_loops)
            /\ count = Max(1, max_loops)
            /\ reenterCalls = Max(0, max_loops - 1)
            /\ reenterOks = reenterCalls

C2_Witness ==
    /\ pc = "returned" /\ max_loops = 0 /\ enterRes = "ok"
    /\ playCalls = 1 /\ endCalls = 1 /\ reenterCalls = 0

\* C3: once a __reenter_battle has returned False the run is over: run is at
\* its final report or has returned, every play_battle and end_battle call
\* belongs to a completed battle, the number of completed battles is 1 plus
\* the number of successful re-entries, and each battle was logged with
\* stage_count rounds.  With stage_count = 3 and max_loops = 2, a run whose
\* __enter_battle and first __reenter_battle succeed reports 2 battles of 3
\* rounds.
C3_FailedReenterEndsRun ==
    /\ reenterFailed
         => /\ pc \in {"run_report", "returned"}
            /\ exc = "none"
            /\ count = 1 + reenterOks
            /\ playCalls = count /\ endCalls = count
            /\ reenterCalls = reenterOks + 1
            /\ Len(roundsLog) = count
            /\ \A i \in 1..Len(roundsLog) : roundsLog[i] = stage_count
    /\ (pc = "returned" /\ stage_count = 3 /\ max_loops = 2
          /\ enterRes = "ok" /\ reenterOks = 1)
         => count = 2 /\ roundsLog = <<3, 3>>

C3_Witness ==
    /\ pc = "returned" /\ reenterFailed /\ reenterOks = 1
    /\ stage_count = 3 /\ count = 2 /\ roundsLog = <<3, 3>>

\* Every stage of 1 .. stage_count has a handler.
AllStagesRegistered ==
    \A s \in 1..stage_count : stage_handlers[s] # NoHandler

\* C4: when every stage of 1 .. stage_count has a handler, the handlers a
\* play_battle call has invoked so far are those of the stages 1, 2, ... in
\* ascending order, each invoked once and with the attack control visible in
\* the cached frame; when play_battle returns it has invoked all stage_count
\* of them and returns stage_count.
C4_HandlersInStageOrder ==
    AllStagesRegistered
    => /\ exc # "KeyError"
       /\ Len(handlerLog) <= stage_count
       /\ \A i \in 1..Len(handlerLog) :
             handlerLog[i] = [stage |-> i, handler |-> stage_handlers[i],
                              attackSeen |-> TRUE]
       /\ pc = "run_played" => Len(handlerLog) = stage_count
                               /\ stage = stage_count

C4_Witness ==
    /\ AllStagesRegistered /\ stage_count = 3 /\ pc = "run_played"
    /\ Len(handlerLog) = 3 /\ handlerLog[1].handler # 1
    /\ playCalls = 2


----------------------------------------------------------------------------
(* One call of __enter_battle or __reenter_battle.                         *)

ApItems == {"apple_golden", "apple_silver", "apple_bronze"}

\* The AP strategy lists: up to MaxAp items, none of them twice.
EnterApLists ==
    UNION { {a \in [1..n -> ApItems] :
                \A i, j \in 1..n : i # j => a[i] # a[j]} : n \in 0..MaxAp }

\* The first statement of __enter_battle, of __reenter_battle.
EnterEntryOf(e) == IF e = "enter" THEN "en_menu" ELSE "re_cont"

InitEnter ==
    /\ entry \in {"enter", "reenter"}
    /\ pc = EnterEntryOf(entry)
    /\ stack = <<"returned">>
    /\ buttons = StubLayoutA
    /\ stage_count = 1
    /\ friend_count \in 1..MaxFriends
    /\ ap \in EnterApLists
    /\ stage_handlers = NoHandlers
    /\ max_loops = 0 /\ reg = NoReg /\ call = NoCall
    /\ wu_im = "none" /\ ff_i = 0 /\ ff_fid = 0 /\ friend = ""
    /\ ap_idx = 0 /\ ok = FALSE /\ entered = FALSE /\ stage = 0 /\ count = 0
    /\ enter_flag = 0 /\ rounds = 0 /\ x = 0 /\ ci = 1
    /\ taps = <<>> /\ acted = FALSE
    /\ enterRes = "none" /\ reenterCalls = 0 /\ reenterOks = 0
    /\ reenterFailed = FALSE /\ playCalls = 0 /\ endCalls = 0
    /\ roundsLog = <<>> /\ handlerLog = <<>>
    /\ burst = <<>> /\ done = {} /\ apLog = <<>> /\ ffLog = <<>>
    /\ endLog = <<>> /\ roster = Unpolled
    /\ exc = "none" /\ frame = Fresh

NextEnter ==
    \/ WaitUntilStart \/ WaitUntilCheck \/ WaitUntilWait \/ WaitUntilReconnect
    \/ EnterMenu \/ EnterQuest \/ EnterQuestSwipe \/ EnterQuestWait
    \/ EnterWait1 \/ ReenterCont \/ ReenterContWait \/ ReenterWait1
    \/ ApCheck \/ ApWait \/ ApLoop \/ ApSwipe \/ ApSwipeWait \/ ApItem
    \/ ApItemWait \/ ApDecide \/ ApOk
    \/ FriendFind \/ FindFriendStart \/ FindFriendLoop \/ FindFriendMatch
    \/ FindFriendSwipe \/ FriendCheck \/ FriendRefresh \/ FriendRefreshWait
    \/ FriendYes \/ FriendYesWait \/ FriendTap \/ EnterStart \/ EnterWaitMid
    \/ ReenterWaitMid

SpecEnter == InitEnter /\ [][NextEnter]_vars

----------------------------------------------------------------------------
(* Properties of __find_friend (checked under SpecEnter).                  *)

\* How often event e occurs in the log.
RECURSIVE CountOf(_, _)
CountOf(log, e) ==
    IF log = <<>> THEN 0
    ELSE (IF Head(log) = e THEN 1 ELSE 0) + CountOf(Tail(log), e)

\* k rounds of: wait, a poll of the roster that matches nothing, swipe.
RECURSIVE MissedRounds(_)
MissedRounds(k) ==
    IF k = 0 THEN <<>>
    ELSE MissedRounds(k - 1) \o <<"wait", "miss", "swipe">>

\* __find_friend has just returned to its caller.
FindFriendReturned == pc = "fr_check"

\* C11: when __find_friend returns a roster entry, it matched at the poll
\* that follows k swipes for some k in 0 .. 5: the call did k rounds of
\* wait, failed poll and swipe, then one wait and the matching poll, and no
\* swipe after it; when it returns '', it did 6 such rounds and nothing else.
C11_FindFriendPollsSixTimes ==
    FindFriendReturned =>
        IF friend # ""
        THEN /\ CountOf(ffLog, "swipe") \in 0..5
             /\ ffLog = MissedRounds(CountOf(ffLog, "swipe"))
                           \o <<"wait", "hit">>
             /\ frame[friend] = "T"
        ELSE ffLog = MissedRounds(6)

\* The second entry of a roster of two is returned after 3 swipes.
C11_Witness ==
    /\ FindFriendReturned
    /\ friend_count = 2
    /\ friend = "f_1"
    /\ CountOf(ffLog, "swipe") = 3


----------------------------------------------------------------------------
(* Properties of the AP recovery (checked under SpecEnter).                *)

\* __enter_battle / __reenter_battle has returned to its caller.
EntryReturned == pc = "returned"

\* The insufficient-AP prompt was seen by the running (or returned) call.
ApPromptSeen == <<"seen", "ap_regen">> \in done

\* C12: once the insufficient-AP prompt was seen with an empty strategy
\* list, the call has returned failure, and it has tried no recovery item and
\* no confirmation, tapped nothing since the prompt, and never started the
\* friend search.
C12_EmptyStrategyFails ==
    (ap = <<>> /\ ApPromptSeen) =>
        /\ EntryReturned
        /\ entered = FALSE
        /\ apLog = <<>>
        /\ burst = <<>>
        /\ ffLog = <<>>
        /\ done \subseteq {<<"seen", "menu">>, <<"tap", "quest">>,
                           <<"seen", "ap_regen">>}

\* __reenter_battle has met the prompt with an empty list, and returned.
C12_Witness ==
    /\ entry = "reenter"
    /\ ap = <<>>
    /\ ApPromptSeen
    /\ EntryReturned
    /\ entered = FALSE


\* The items are tried in list order, each at most once, and a confirmation
\* is tried only right after the tap on its item succeeded.
TriedInListOrder(log) ==
    /\ \A i \in 1..Len(log) : log[i].idx \in 1..Len(ap)
    /\ \A i, j \in 1..Len(log) :
          (i < j /\ log[i].kind = "item" /\ log[j].kind = "item")
             => log[i].idx < log[j].idx
    /\ \A j \in 1..Len(log) :
          log[j].kind = "decide" =>
             /\ j > 1
             /\ log[j - 1] = [kind |-> "item", idx |-> log[j].idx,
                              tapped |-> TRUE, ok |-> TRUE]
    /\ \A i \in 1..Len(log) : (log[i].kind = "item" /\ log[i].ok) =>
          \/ i = Len(log)
          \/ log[i + 1].kind = "decide"

\* The attempt at position i of the log succeeded: item and confirmation.
Recovered(log, i) == log[i].kind = "decide" /\ log[i].ok

\* Every item of the strategy list was tried, none with success.
EveryItemFailed(log) ==
    /\ \A n \in 1..Len(ap) :
          \E i \in 1..Len(log) : log[i].kind = "item" /\ log[i].idx = n
    /\ \A i \in 1..Len(log) :
          /\ ~Recovered(log, i)
          /\ (log[i].kind = "item" /\ log[i].ok) =>
                (i < Len(log) /\ log[i + 1].kind = "decide")

\* The statements of the AP recovery.
ApPcs ==
    {"ap_wait", "ap_loop", "ap_swipe", "ap_swipe_wait", "ap_item",
     "ap_item_wait", "ap_decide"}

\* C13: the AP recovery tries the items in list order; a successful
\* confirmation is the last attempt of the recovery (nothing is tried after
\* it, and the friend search follows); the call returns failure exactly when
\* the prompt was seen and the list is empty or every item's attempt failed.
C13_ApItemsInOrderUntilSuccess ==
    /\ TriedInListOrder(apLog)
    /\ \A i \in 1..Len(apLog) : Recovered(apLog, i) =>
          /\ i = Len(apLog)
          /\ pc \in {"ap_ok", "wu_start", "wu_check", "wu_wait",
                     "wu_reconnect"}
    /\ ok => (apLog = <<>> /\ pc \notin ApPcs)
    /\ (EntryReturned /\ ~entered) =>
          (ApPromptSeen /\ (ap = <<>> \/ EveryItemFailed(apLog)))
    /\ (ap # <<>> /\ EveryItemFailed(apLog)) =>
          /\ pc \in {"ap_loop", "returned"}
          /\ <<"call", "find_friend">> \notin done
          /\ EntryReturned => ~entered

\* The first item did not match, the second was tapped and confirmed: one
\* confirmation, after the second item's tap, and a third item left untried.
C13_Witness ==
    /\ pc = "ap_ok"
    /\ Len(ap) = 3
    /\ apLog = << [kind |-> "item", idx |-> 1, tapped |-> FALSE, ok |-> FALSE],
                  [kind |-> "item", idx |-> 2, tapped |-> TRUE, ok |-> TRUE],
                  [kind |-> "decide", idx |-> 2, tapped |-> TRUE, ok |-> TRUE] >>


----------------------------------------------------------------------------
(* Properties of the invokers' synchronisation and of their skipped        *)
(* prompts (checked under SpecInvoke).                                     *)

\* The attack control was seen in a frame refreshed by this invocation's
\* __wait_until.
AttackSeen == <<"seen", "attack">> \in done

\* C14: an invoker has issued no tap of its own unless its __wait_until has
\* seen the attack control in a refreshed frame; the only tap or swipe
\* before that is __wait_until's tap on the reconnect prompt; and the
\* invoker's first tap is issued on a frame that shows the attack control.
C14_InvokersSyncOnAttack ==
    /\ taps # <<>> => AttackSeen
    /\ ~AttackSeen => \A i \in 1..Len(burst) : burst[i] = "reconnect"
    /\ pc \in {"us_tap", "ms_menu", "at_tap"} =>
          (AttackSeen /\ frame["attack"] = "T" /\ taps = <<>>)

\* use_master_skill has tapped the menu after a wait in which the reconnect
\* prompt came up and was tapped before the attack control was seen.
C14_Witness ==
    /\ call.fn = "use_master_skill"
    /\ AttackSeen
    /\ Len(taps) = 1
    /\ burst = <<"reconnect", "master_skill_menu">>

\* The taps of the log on the control of the given name.
TapsOn(name) == {i \in 1..Len(taps) : taps[i].name = name}

\* The arguments use_master_skill needs for a single object, for an order
\* change.
SingleObjectGiven == call.obj # None /\ call.obj \in 1..3
OrderChangeObjectsGiven ==
    /\ call.obj # None /\ call.obj \in 1..3
    /\ call.obj2 # None /\ call.obj2 \in 4..6

\* C15: use_skill without an object taps no object slot; use_master_skill
\* with the object missing or outside 1 .. 3 taps no object slot, and with
\* object / object2 missing or outside 1 .. 3 / 4 .. 6 taps no change slot
\* and no change confirmation; neither raises an error; and when the prompt
\* is up at the end of such a call, the taps are the skill taps alone.
C15_UnresolvedPromptIsSkipped ==
    /\ (call.fn = "use_skill" /\ call.obj = None) =>
          TapsOn("choose_object") = {}
    /\ (call.fn = "use_master_skill" /\ ~SingleObjectGiven) =>
          TapsOn("choose_object") = {}
    /\ (call.fn = "use_master_skill" /\ ~OrderChangeObjectsGiven) =>
          TapsOn("change") = {}
    /\ call.fn \in {"use_skill", "use_master_skill"} => exc = "none"
    /\ (pc = "us_wait2" /\ frame["choose_object"] = "T" /\ call.obj = None) =>
          Len(taps) = 1
    /\ (pc = "ms_wait3" /\ frame["choose_object"] = "T"
          /\ ~SingleObjectGiven) => Len(taps) = 2
    /\ (pc = "ms_wait3" /\ frame["order_change"] = "T"
          /\ ~OrderChangeObjectsGiven) => Len(taps) = 2

\* use_master_skill met the order-change prompt with object2 outside 4 .. 6
\* and skipped it: only the final wait and the return are left.
C15_Witness ==
    /\ call.fn = "use_master_skill"
    /\ call.obj = 1 /\ call.obj2 = 7
    /\ pc = "ms_wait3"
    /\ frame["order_change"] = "T"
    /\ exc = "none"
    /\ Len(taps) = 2


\* C16: no tap or swipe is issued while an earlier one is still not followed
\* by a sleep or a frame refresh: at most one actuation call since the last
\* wait, in every state.
C16_WaitBetweenActuations == Len(burst) <= 1


----------------------------------------------------------------------------
(* Properties of play_battle with a missing handler (checked under Spec).  *)

\* Some stage of the battle has no handler; the first such stage.
SomeStageMissing == \E s \in 1..stage_count : stage_handlers[s] = NoHandler

FirstMissing ==
    CHOOSE s \in 1..stage_count :
       /\ stage_handlers[s] = NoHandler
       /\ \A t \in 1..(s - 1) : stage_handlers[t] # NoHandler

\* C17: with handlers for the stages 1 .. k-1 and none for stage k, the
\* handlers play_battle has invoked are those of 1, 2, ... in order and of
\* stages below k only; play_battle never gets past stage k; no battle is
\* counted or logged, no round count is returned and end_battle is never
\* called; and the error, when it is raised, is raised at stage k after the
\* k-1 handlers, and ends the run.
C17_MissingHandlerFails ==
    SomeStageMissing =>
        /\ \A i \in 1..Len(handlerLog) :
              /\ handlerLog[i].stage = i
              /\ handlerLog[i].handler = stage_handlers[i]
        /\ Len(handlerLog) < FirstMissing
        /\ stage <= FirstMissing
        /\ (pc = "pb_wait" => stage < FirstMissing)
        /\ count = 0 /\ rounds = 0 /\ roundsLog = <<>> /\ endCalls = 0
        /\ playCalls <= 1
        /\ exc \in {"none", "KeyError", "ZeroDivisionError"}
        /\ exc = "KeyError" =>
              /\ pc = "raised" /\ stack = <<>>
              /\ playCalls = 1
              /\ stage = FirstMissing
              /\ Len(handlerLog) = FirstMissing - 1
        /\ (playCalls = 1 /\ pc \in {"raised", "returned"}) => exc = "KeyError"

\* Handlers for stages 1 and 3 of 3: the first was invoked, stage 2 failed,
\* the handler of stage 3 was never reached.
C17_Witness ==
    /\ stage_count = 3
    /\ SomeStageMissing /\ FirstMissing = 2
    /\ stage_handlers[3] # NoHandler
    /\ exc = "KeyError"
    /\ Len(handlerLog) = 1


----------------------------------------------------------------------------
(* Properties of __wait_until (checked under SpecInvoke).                  *)

WaitUntilPcs == {"wu_start", "wu_check", "wu_wait", "wu_reconnect"}

\* One step of __wait_until, as C18 describes it.
WaitUntilStepAsSpecified ==
    /\ taps' = taps
    /\ pc = "wu_start" =>
          (pc' = "wu_check" /\ frame' = Fresh /\ burst' = <<>>)
    /\ pc = "wu_check" =>
          /\ burst' = burst
          /\ frame'[wu_im] \in {"T", "F"}
          /\ frame'[wu_im] = "T" =>
                (pc' = Head(stack) /\ stack' = Tail(stack))
          /\ frame'[wu_im] = "F" => (pc' = "wu_wait" /\ stack' = stack)
    /\ pc = "wu_wait" =>
          (pc' = "wu_reconnect" /\ frame' = Fresh /\ burst' = <<>>)
    /\ pc = "wu_reconnect" =>
          /\ pc' = "wu_check"
          /\ burst = <<>>
          /\ frame'["reconnect"] \in {"T", "F"}
          /\ frame'["reconnect"] = "T" => burst' = <<"reconnect">>
          /\ frame'["reconnect"] = "F" => burst' = <<>>
          /\ \A l \in Labels \ {"reconnect"} : frame'[l] = frame[l]

\* C18: __wait_until returns only from a check that found the image in the
\* cached frame, which no step of it has changed since the last refresh;
\* a check that did not find it is followed by a sleep and a refresh, and
\* then by exactly one tap on the reconnect prompt if that frame shows it,
\* by no tap otherwise, before the next check; no other step of it taps or
\* swipes.
C18_WaitUntilReturnsOnlyWhenVisible ==
    [][(pc \in WaitUntilPcs) => WaitUntilStepAsSpecified]_vars

\* __wait_until has just returned to use_skill: the image is in the frame,
\* and the frame was refreshed and the reconnect prompt tapped on the way.
C18_Witness ==
    /\ pc = "us_tap"
    /\ wu_im = "attack"
    /\ frame["attack"] = "T"
    /\ frame["reconnect"] = "T"
    /\ burst = <<"reconnect">>


----------------------------------------------------------------------------
(* Properties of entering the battle (checked under SpecEnter).            *)

\* The roster entries the call has seen matching, has tapped.
FriendsSeen ==
    {i \in 1..Len(FriendNames) : <<"seen", FriendNames[i]>> \in done}
FriendsTapped ==
    {i \in 1..Len(FriendNames) : <<"tap", FriendNames[i]>> \in done}

\* C19: a call that returned success has seen a roster entry match and has
\* tapped that entry; the start-quest control is tapped only by
\* __enter_battle, only after the friend was tapped and the control was seen;
\* __reenter_battle neither waits for it nor taps it; and the quest is tapped
\* only by __enter_battle, only after the main menu was seen.
C19_SuccessOnlyAfterFriendTap ==
    /\ FriendsTapped \subseteq FriendsSeen
    /\ Cardinality(FriendsSeen) <= 1
    /\ (EntryReturned /\ entered) =>
          /\ FriendsTapped # {}
          /\ FriendsTapped = FriendsSeen
          /\ entry = "enter" => <<"tap", "start_quest">> \in done
    /\ <<"seen", "start_quest">> \in done =>
          (entry = "enter" /\ FriendsTapped # {})
    /\ <<"tap", "start_quest">> \in done =>
          (entry = "enter" /\ <<"seen", "start_quest">> \in done)
    /\ entry = "reenter" =>
          /\ wu_im # "start_quest"
          /\ pc \notin {"en_start", "en_wait_mid"}
    /\ <<"tap", "quest">> \in done =>
          (entry = "enter" /\ <<"seen", "menu">> \in done)

\* __enter_battle returned success with the second roster entry.
C19_Witness ==
    /\ entry = "enter"
    /\ EntryReturned /\ entered
    /\ FriendsTapped = {2}
    /\ <<"tap", "start_quest">> \in done


\* No roster entry matches in the cached frame.
NoFriendMatches ==
    \A i \in 1..Len(FriendNames) : frame[FriendNames[i]] # "T"

\* The call has started its friend search.
SearchStarted == <<"call", "find_friend">> \in done

\* One step of the retry of the friend search.  A refresh and a confirmation
\* are tapped whenever their step is taken (always), or when their control
\* is found in the cached frame and not otherwise.
RetryStep(always) ==
    /\ (pc = "fr_check" /\ friend = "") => pc' = "fr_refresh"
    /\ pc = "fr_refresh" =>
          /\ pc' = "fr_refresh_wait"
          /\ burst' = IF always \/ frame'["refresh_friends"] = "T"
                      THEN Append(burst, "refresh_friends") ELSE burst
    /\ pc = "fr_refresh_wait" =>
          (pc' = "fr_yes" /\ frame' = Fresh /\ burst' = <<>>)
    /\ pc = "fr_yes" =>
          /\ pc' = "fr_yes_wait"
          /\ burst' = IF always \/ frame'["yes"] = "T"
                      THEN <<"yes">> ELSE <<>>
    /\ pc = "fr_yes_wait" =>
          (pc' = "fr_find" /\ frame' = Fresh /\ burst' = <<>>)
    /\ pc = "fr_find" => pc' = "ff_start"
    /\ pc = "ff_start" =>
          /\ pc' = "wu_start" /\ wu_im' = "refresh_friends"
          /\ Head(stack') = "ff_loop"
          /\ ff_i' = 0 /\ ffLog' = <<>>

\* C20 as claimed: while no roster entry ever matches, a call that has
\* started its friend search never returns; after a search that returned
\* empty it taps refresh, waits, taps the confirmation, waits, and starts the
\* search again from its first poll.
C20_RetryTapsAndNeverReturns ==
    /\ [][RetryStep(TRUE)]_vars
    /\ []NoFriendMatches => [](SearchStarted => ~EntryReturned)

\* C20 as amended: ... after a search that returned empty it looks for the
\* refresh control in the cached frame and taps it if it is there, waits,
\* looks for the confirmation and taps it if it is there, waits, and starts
\* the search again from its first poll.
C20_RetryNeverReturns ==
    /\ [][RetryStep(FALSE)]_vars
    /\ []NoFriendMatches => [](SearchStarted => ~EntryReturned)

\* A second search is polling the roster after a first one returned empty
\* and the refresh was retried, with no entry seen so far.
C20_Witness ==
    /\ pc = "ff_match"
    /\ <<"call", "retry">> \in done
    /\ FriendsSeen = {}
    /\ ffLog = <<"wait">>


----------------------------------------------------------------------------
(* end_battle, tap by tap.                                                 *)

\* The statements of end_battle.
EndPcs ==
    {"eb_start", "eb_loop", "eb_tap", "eb_wait", "eb_reconnect", "eb_next1",
     "eb_wait2", "eb_check2", "eb_wait3", "eb_wait4", "eb_not_apply",
     "eb_wait5"}

\* The step issues a tap or swipe on `name`.
Actuates(name) == burst' = Append(burst, name)

\* The step issues some tap or swipe.
ActuatesAny == Len(burst') > Len(burst)

\* The next-step and decline taps a completed end_battle can have issued.
EndTapOrders ==
    {<<"next_step">>, <<"next_step", "next_step">>,
     <<"next_step", "not_apply">>,
     <<"next_step", "next_step", "not_apply">>}

\* One step of end_battle, as claimed.
EndBattleStepAsSpecified ==
    \* a blind screen tap: next_step is absent from the latest frame
    /\ Actuates("screen") => frame["next_step"] = "F" /\ endLog = <<>>
    \* the reconnect prompt is looked for after a wait, and tapped exactly
    \* when it is visible; only before next_step has appeared
    /\ pc = "eb_reconnect"
          => /\ burst = <<>>
             /\ Actuates("reconnect") <=> frame'["reconnect"] = "T"
    /\ Actuates("reconnect") => pc = "eb_reconnect" /\ endLog = <<>>
    \* once next_step is visible the loop ends and next_step is tapped
    /\ pc = "eb_loop" /\ frame'["next_step"] = "T" => pc' = "eb_next1"
    /\ pc = "eb_next1"
          => Actuates("next_step") /\ frame["next_step"] = "T"
    \* the second tap: only if next_step is visible after the following wait
    /\ pc = "eb_check2"
          => /\ burst = <<>> /\ frame["next_step"] = "?"
             /\ endLog = <<"next_step">>
             /\ Actuates("next_step") <=> frame'["next_step"] = "T"
    /\ Actuates("next_step")
          => /\ pc \in {"eb_next1", "eb_check2"}
             /\ endLog' = Append(endLog, "next_step")
             /\ Len(endLog') <= 2
    \* the decline tap: after the next-step taps, once, only if visible
    /\ pc = "eb_not_apply"
          => Actuates("not_apply") <=> frame'["not_apply"] = "T"
    /\ Actuates("not_apply")
          => /\ pc = "eb_not_apply"
             /\ endLog \in {<<"next_step">>, <<"next_step", "next_step">>}
             /\ endLog' = Append(endLog, "not_apply")
    \* nothing else is tapped
    /\ ActuatesAny
          => \E n \in {"screen", "reconnect", "next_step", "not_apply"} :
                Actuates(n)

\* C21: end_battle issues blind screen taps only while next_step is absent
\* from the latest frame, tapping the reconnect prompt whenever it is
\* visible after a wait; once next_step is visible it is tapped, and tapped
\* a second time only if it is still visible after the following wait, so a
\* completed end_battle has tapped next_step once or twice; only after that
\* is the decline-friend-request control tapped, at most once and only if
\* it is visible.
C21_EndBattleTaps ==
    /\ [][(pc \in EndPcs) => EndBattleStepAsSpecified]_vars
    /\ [](pc = "run_ended" => endLog \in EndTapOrders)

\* An end_battle has returned after two next-step taps and a decline tap.
C21_Witness ==
    /\ pc = "run_ended"
    /\ endLog = <<"next_step", "next_step", "not_apply">>


----------------------------------------------------------------------------
(* The friend roster: first match wins.                                    *)

\* The roster entries that match the polled frame at the threshold.
Matching == {fid \in 0..(friend_count - 1) : MatchesAt(fid)}

\* The matching entry with the lowest roster index.
FirstMatching == CHOOSE fid \in Matching : \A g \in Matching : fid <= g

\* __find_friend has just returned a roster entry.
FriendReturned == pc \in {"fr_check", "fr_tap"} /\ friend # ""

\* Some entry matches with a higher confidence than the first matching one.
BetterMatchBehind ==
    \E g \in Matching : g > FirstMatching /\ roster[g] > roster[FirstMatching]

\* C22: friend matching is first-match-wins: whenever several roster
\* entries match at the threshold in the same polled frame, __find_friend
\* returns the entry with the lowest roster index, whatever the confidences
\* of the matches, and the friend tap of __enter_battle / __reenter_battle
\* is a find-and-tap of exactly that entry.
C22_FirstMatchWins ==
    /\ [](FriendReturned
            => /\ Matching # {}
               /\ friend = FriendIm(FirstMatching)
               /\ frame[friend] = "T")
    /\ [][(pc = "fr_tap")
            => /\ friend = FriendIm(FirstMatching)
               /\ Actuates(friend)
               /\ done' = done \cup {<<"tap", friend>>}]_vars
    /\ [][(pc \in {"fr_check", "fr_tap"} /\ ActuatesAny)
            => pc = "fr_tap" /\ Actuates(friend)]_vars

\* __find_friend has returned the first roster entry although the second
\* one matches the same frame with a higher confidence.
C22_Witness ==
    /\ FriendReturned
    /\ pc = "fr_tap"
    /\ friend_count = 2
    /\ Cardinality(Matching) = 2
    /\ BetterMatchBehind
    /\ friend = "f_0"


----------------------------------------------------------------------------
(* Termination of run.                                                     *)

\* A script that has registered a handler for every stage, handler s for
\* stage s, and calls bot.run(max_loops).
InitLive == InitRun /\ AllStagesRegistered /\ stage_handlers[1] = 1

\* The program keeps running: it is sequential, and the statement it is at
\* is eventually executed.
SpecLive == InitLive /\ [][NextRun]_vars /\ WF_vars(NextRun)

\* The controls __wait_until is called for on the way through run.
Awaited == {"menu", "refresh_friends", "start_quest", "attack"}

\* A polling loop looks for the control it waits for and finds it in the
\* frame: __wait_until, the quest loop of __enter_battle, the continue loop
\* of __reenter_battle, the next-step loop of end_battle.
PollSees ==
    \/ WaitUntilCheck /\ wu_im \in Awaited /\ frame'[wu_im] = "T"
    \/ EnterQuest /\ frame'["quest"] = "T"
    \/ ReenterCont /\ frame'["cont"] = "T"
    \/ EndBattleLoop /\ frame'["next_step"] = "T"

\* The find-and-tap of the quest loop, of the continue loop, returns True:
\* the control is found and the device reports the tap as done.
TapLands ==
    \/ EnterQuest /\ pc' = "en_wait1"
    \/ ReenterCont /\ pc' = "re_wait1"

\* A poll of __find_friend finds a roster entry that matches its frame.
PollMatches == FindFriendMatch /\ friend' # ""

\* Every control a polling loop waits for is eventually visible to the loop
\* that waits for it.  The program is sequential and none of these loops
\* contains another, so a loop that polls forever is the only one polling:
\* one condition stands for one condition per control.
ControlsAppear == SF_vars(PollSees)

\* A roster friend eventually matches.  (The friend search is repeated
\* around a __wait_until for refresh_friends, so this is a condition of its
\* own.)
FriendMatches == SF_vars(PollMatches)

\* The taps on the quest and on the continue control are eventually reported
\* as done.
TapsLand == SF_vars(TapLands)

\* run has ended: it returned after its report, or the report raised.
RunTerminated == pc \in {"returned", "raised"}

\* C23 as claimed: with every awaited control eventually visible and a
\* roster friend eventually matching, run(max_loops) terminates for every
\* max_loops and complete registration.
C23_RunTerminates ==
    (ControlsAppear /\ FriendMatches) => <>RunTerminated

\* C23, amended: with every awaited control eventually visible, a roster
\* friend eventually matching, and the taps on the quest and on the continue
\* control eventually reported as done, run(max_loops) terminates for every
\* max_loops and complete registration: every polling loop retries until
\* success or until its bound.
C23_RunTerminatesIfTapsLand ==
    (ControlsAppear /\ FriendMatches /\ TapsLand) => <>RunTerminated

\* run(MaxLoops) has returned with MaxLoops battles completed.
C23_Witness ==
    /\ pc = "returned" /\ exc = "none"
    /\ max_loops = MaxLoops /\ count = MaxLoops
    /\ AllStagesRegistered

====
